---- MODULE Spec2Model ----
(***************************************************************************)
(* Seafile FileLink: the authenticated-session lifecycle (three-tier token *)
(* acquisition over the login-manager vault and the in-memory API cache)   *)
(* and the upload / delete / account-deletion / save-config handlers of    *)
(* background.js, with the loginManager experiment API of                  *)
(* experiment_apis/loginManager/implementation.js as the vault.            *)
(*                                                                         *)
(* Every handler is an asynchronous task.  A step of a task runs from the  *)
(* completion of one awaited call (a storage read, a vault call, an HTTP   *)
(* response) through the synchronous code that follows it, up to the next  *)
(* awaited call.                                                           *)
(***************************************************************************)
EXTENDS Integers, Sequences, FiniteSets, TLC

\* ------------------------------------------------------------------ bounds
\* characters of a path given to sanitizePath
MaxPathLen == 5
\* handler slots; Spec runs one handler at a time
MaxTasks == 2
\* save-config requests per behaviour
MaxSaves == 2
\* other handler invocations per behaviour
MaxCalls == 2

\* ------------------------------------------------------------- value sets
Accounts == {"a1", "a2"}
FileIds == {"f1", "f2"}
Users == {"u1", "u2"}
Tokens == {"t1", "t2"}
GoodPw == "pw"
\* a password the server rejects
BadPw == "old"
SharePw == "sp"

\* background.js REALMS / implementation.js ALLOWED_REALMS
REALMS == [PASSWORD |-> "Seafile FileLink",
           TOKEN |-> "Seafile FileLink Token",
           SHARE_PW |-> "Seafile FileLink SharePW"]
ALLOWED_REALMS == <<"Seafile FileLink", "Seafile FileLink Token", "Seafile FileLink SharePW">>

\* A URL string, by its parsed parts.  scheme "" is the empty string, scheme
\* "?" a string that `new URL` rejects; port 0 is "no port written".
Url(s, h, p, x) == [scheme |-> s, host |-> h, port |-> p, path |-> x]
NoUrl == Url("", "", 0, "")
DefaultPort(scheme) == IF scheme = "https" THEN 443 ELSE IF scheme = "http" THEN 80 ELSE 0

\* the URL parser lower-cases the host
LowerHost(h) == IF h = "H1" THEN "h1" ELSE h

\* origin that keeps the URL's path
OriginOfKeepsPath(u) ==
  Url(u.scheme, LowerHost(u.host), IF u.port = DefaultPort(u.scheme) THEN 0 ELSE u.port, u.path)

\* URL.origin / nsIURI.prePath: scheme://host[:port], the default port dropped
OriginOf(u) ==
  Url(u.scheme, LowerHost(u.host), IF u.port = DefaultPort(u.scheme) THEN 0 ELSE u.port, "")

\* background.js validateServerUrl: rejects empty, unparseable and
\* non-http(s) URLs, returns parsed.origin
validateServerUrl(url) ==
  IF url.scheme = "" THEN [ok |-> FALSE, origin |-> NoUrl]
  ELSE IF url.scheme = "?" THEN [ok |-> FALSE, origin |-> NoUrl]
  ELSE IF url.scheme # "https" /\ url.scheme # "http" THEN [ok |-> FALSE, origin |-> NoUrl]
  ELSE [ok |-> TRUE, origin |-> OriginOf(url)]

\* implementation.js validateHostname: same checks, returns uri.prePath
validateHostname(hostname) ==
  IF hostname.scheme = "" \/ hostname.scheme = "?" THEN [ok |-> FALSE, origin |-> NoUrl]
  ELSE IF hostname.scheme # "https" /\ hostname.scheme # "http" THEN [ok |-> FALSE, origin |-> NoUrl]
  ELSE [ok |-> TRUE, origin |-> OriginOf(hostname)]

\* validateRealm that lets every realm pass
validateRealmAny(realm) == TRUE

\* implementation.js validateRealm
validateRealm(realm) == \E i \in 1..Len(ALLOWED_REALMS) : ALLOWED_REALMS[i] = realm

\* ------------------------------------------------------------------ paths
\* A path is a sequence of characters.
RECURSIVE RemoveDotDot(_)
RemoveDotDot(s) ==
  IF Len(s) < 2 THEN s
  ELSE IF s[1] = "." /\ s[2] = "." THEN RemoveDotDot(SubSeq(s, 3, Len(s)))
  ELSE <<s[1]>> \o RemoveDotDot(Tail(s))

\* a replace that drops one slash of each pair it meets, left to right
RECURSIVE CollapsePairs(_)
CollapsePairs(s) ==
  IF Len(s) < 2 THEN s
  ELSE IF s[1] = "/" /\ s[2] = "/" THEN <<"/">> \o CollapsePairs(SubSeq(s, 3, Len(s)))
  ELSE <<s[1]>> \o CollapsePairs(Tail(s))

RECURSIVE CollapseSlashes(_)
CollapseSlashes(s) ==
  IF Len(s) < 2 THEN s
  ELSE IF s[1] = "/" /\ s[2] = "/" THEN CollapseSlashes(Tail(s))
  ELSE <<s[1]>> \o CollapseSlashes(Tail(s))

\* background.js sanitizePath
sanitizePath(path) ==
  IF path = <<>> THEN <<"/">>
  ELSE LET clean == CollapseSlashes(RemoveDotDot(path))
       IN IF clean # <<>> /\ clean[1] = "/" THEN clean ELSE <<"/">> \o clean

\* "/Thunderbird-Attachments", abbreviated
DefaultUploadDir == <<"/", "T">>

\* validatePositiveInt without Math.min
validatePositiveIntNoMax(value) == IF value < 0 THEN 0 ELSE value

\* background.js validatePositiveInt(value, max = 365, fallback = 0)
validatePositiveInt(value) == IF value < 0 THEN 0 ELSE IF value < 365 THEN value ELSE 365

\* ------------------------------------------------------------------ vault
\* The login manager's store: logins in insertion order.
Login(o, r, u, p) == [origin |-> o, realm |-> r, username |-> u, password |-> p]
NoLogin == Login(NoUrl, "", "", "")

\* implementation.js findLoginsForRealm
findLoginsForRealm(lm, origin, safeRealm) ==
  SelectSeq(lm, LAMBDA l : l.origin = origin /\ l.realm = safeRealm)

\* implementation.js saveCredentials: [ok, lm]; ok = FALSE is a throw
saveCredentials(lm, hostname, realm, username, password) ==
  LET h == validateHostname(hostname) IN
  IF ~h.ok \/ ~validateRealm(realm) \/ username = "" THEN [ok |-> FALSE, lm |-> lm]
  ELSE LET kept == SelectSeq(lm, LAMBDA l :
                     ~(l.origin = h.origin /\ l.realm = realm /\ l.username = username))
       IN [ok |-> TRUE, lm |-> Append(kept, Login(h.origin, realm, username, password))]

\* implementation.js getCredentials: logins[0] or null (NoLogin)
getCredentials(lm, hostname, realm) ==
  LET logins == findLoginsForRealm(lm, validateHostname(hostname).origin, realm)
  IN IF Len(logins) = 0 THEN NoLogin ELSE logins[1]

\* implementation.js removeCredentials
removeCredentials(lm, hostname, realm) ==
  LET origin == validateHostname(hostname).origin
  IN SelectSeq(lm, LAMBDA l : ~(l.origin = origin /\ l.realm = realm))

\* removeAllForHost that loops over the password realm only
removeAllForHostOneRealm(lm, hostname) ==
  LET origin == validateHostname(hostname).origin
  IN SelectSeq(lm, LAMBDA l : ~(l.origin = origin /\ l.realm = ALLOWED_REALMS[1]))

\* implementation.js removeAllForHost
removeAllForHost(lm, hostname) ==
  LET origin == validateHostname(hostname).origin
  IN SelectSeq(lm, LAMBDA l : ~(l.origin = origin /\ validateRealm(l.realm)))

\* background.js saveSecret: an empty value is silently not saved
saveSecret(lm, serverUrl, realm, key, value) ==
  IF value = "" THEN [ok |-> TRUE, lm |-> lm]
  ELSE saveCredentials(lm, serverUrl, realm, key, value)

\* background.js getSecret: the password of logins[0], or null ("")
getSecret(lm, serverUrl, realm) == getCredentials(lm, serverUrl, realm).password

\* background.js removeSecret
removeSecret(lm, serverUrl, realm) == removeCredentials(lm, serverUrl, realm)


\* ------------------------------------------------------------------ state
VARIABLES
  config,         \* messenger.storage.local: accountId -> stored AccountConfig
  vault,          \* the login manager's logins, in insertion order
  apiCache,       \* background.js apiCache: accountId -> SeafileAPI
  uploadedFiles,  \* background.js uploadedFiles: fileId -> metadata
  srvTok,         \* storage service: per origin, the bearer token it accepts
  tasks,          \* handler invocations in flight, with their locals
  nSaves,         \* save-config requests so far
  nCalls,         \* other handler invocations so far
  deleted,        \* configured accounts whose deletion completed, not saved since
  aborted         \* file ids whose abort event fired while their bytes were in flight

vars == <<config, vault, apiCache, uploadedFiles, srvTok, tasks, nSaves, nCalls, deleted, aborted>>

TaskIds == 1..MaxTasks

\* URLs typed into the configuration form, and the origins they denote
Url1 == Url("https", "h1", 443, "/")
Url2 == Url("https", "h2", 0, "")
ServerUrls == {Url1, Url2}
Origins == {validateServerUrl(u).origin : u \in ServerUrls}

\* stored AccountConfig (saveConfig's storageConfig); NoConfig is "no entry"
Config(url, user, dir, days, hasPw) ==
  [serverUrl |-> url, username |-> user, repoId |-> "lib1", repoName |-> "Lib",
   uploadDir |-> dir, shareLinkExpireDays |-> days, hasShareLinkPassword |-> hasPw]
NoConfig ==
  [serverUrl |-> NoUrl, username |-> "", repoId |-> "", repoName |-> "",
   uploadDir |-> <<>>, shareLinkExpireDays |-> 0, hasShareLinkPassword |-> FALSE]

\* a SeafileAPI instance: its serverUrl and token; tier records which tier of
\* getAuthenticatedAPI constructed it
Api(url, tok, tier) == [serverUrl |-> url, token |-> tok, tier |-> tier]
NoApi == Api(NoUrl, "", 0)

\* an uploadedFiles entry
Record(repo, path, acct) == [repoId |-> repo, filePath |-> path, accountId |-> acct]
NoRecord == Record("", <<>>, "")

\* what a handler hands back to its caller
Result(kind, code) == [kind |-> kind, code |-> code, url |-> FALSE, expiry |-> 0, pwFlag |-> FALSE]
NoResult == Result("", "")

\* the saveConfig message's config object
Input(url, user, pw, tok, sharePw, days) ==
  [serverUrl |-> url, username |-> user, password |-> pw, apiToken |-> tok,
   shareLinkPassword |-> sharePw, shareLinkExpireDays |-> days, uploadDir |-> <<>>]
NoInput == Input(NoUrl, "", "", "", "", 0)

\* the JSON body of a share-link request; expire_days -1 is "field omitted"
Body(path, pw, days) == [path |-> path, password |-> pw, expire_days |-> days]
NoBody == Body(<<>>, "", -1)

FileNames == {<<".", ".", "/", "a">>}

IdleTask ==
  [kind |-> "idle", pc |-> "idle", acct |-> "", fileId |-> "", name |-> <<>>,
   inp |-> NoInput, cfg |-> NoConfig, serverUrl |-> NoUrl, api |-> NoApi,
   creds |-> NoLogin, status |-> 0, link |-> NoUrl, sharePw |-> "",
   body |-> NoBody, fileInfo |-> NoRecord, result |-> NoResult, warn |-> "",
   op |-> "",
   before |-> <<>>,
   trace |-> <<>>]

Init ==
  /\ config = [a \in Accounts |-> NoConfig]
  /\ vault = <<>>
  /\ apiCache = [a \in Accounts |-> NoApi]
  /\ uploadedFiles = [f \in FileIds |-> NoRecord]
  /\ srvTok = [o \in Origins |-> "t1"]
  /\ tasks = [t \in TaskIds |-> IdleTask]
  /\ nSaves = 0
  /\ nCalls = 0
  /\ deleted = {}
  /\ aborted = {}

\* ------------------------------------------------------------ environment
\* the number of occurrences of x in a trace
RECURSIVE Count(_, _)
Count(tr, x) == IF tr = <<>> THEN 0 ELSE (IF tr[1] = x THEN 1 ELSE 0) + Count(Tail(tr), x)

Running == {t \in TaskIds : tasks[t].kind # "idle"}
\* the slot a new handler invocation takes
FreeSlot(limit) == {t \in TaskIds : /\ tasks[t].kind = "idle"
                                    /\ Cardinality(Running) < limit
                                    /\ \A u \in TaskIds : u < t => tasks[u].kind # "idle"}

OtherToken(tok) == CHOOSE x \in Tokens : x # tok

\* the server at origin o revokes its token and accepts a new one from now on
ExpireToken(o) ==
  /\ srvTok' = [srvTok EXCEPT ![o] = OtherToken(srvTok[o])]
  /\ UNCHANGED <<config, vault, apiCache, uploadedFiles, tasks, nSaves, nCalls, deleted, aborted>>

\* the background page is unloaded and started again: the in-memory maps are
\* lost, storage.local and the login manager persist
Restart ==
  /\ Running = {}
  /\ \/ \E a \in Accounts : apiCache[a] # NoApi
     \/ \E f \in FileIds : uploadedFiles[f] # NoRecord
  /\ apiCache' = [a \in Accounts |-> NoApi]
  /\ uploadedFiles' = [f \in FileIds |-> NoRecord]
  /\ UNCHANGED <<config, vault, srvTok, tasks, nSaves, nCalls, deleted, aborted>>

\* the caller has taken the handler's result
Finish(t) ==
  /\ tasks[t].pc = "done"
  /\ tasks' = [tasks EXCEPT ![t] = IdleTask]
  /\ UNCHANGED <<config, vault, apiCache, uploadedFiles, srvTok, nSaves, nCalls, deleted, aborted>>

\* ----------------------------------------------------- getAuthenticatedAPI
Log(tk, what) == Append(tk.trace, what)

\* SeafileAPI.ping: response.ok; the server accepts exactly its current token
pingOk(api) == api.serverUrl \in DOMAIN srvTok /\ srvTok[api.serverUrl] = api.token

\* the task after getAuthenticatedAPI returned api to its caller
Returned(tk, api, what) ==
  IF tk.kind = "session"
    THEN [tk EXCEPT !.pc = "done", !.api = api, !.result = Result("ok", ""), !.trace = Log(tk, what)]
  ELSE IF tk.kind = "upload"
    THEN [tk EXCEPT !.pc = "up_cfg", !.api = api, !.trace = Log(tk, what)]
  ELSE [tk EXCEPT !.pc = "del_req", !.api = api, !.trace = Log(tk, what)]

\* the task after an exception left the handler's try block (or, for a bare
\* getAuthenticatedAPI call, reached the caller)
Thrown(tk, code, what) ==
  IF tk.kind = "delete"
    \* onFileDeleted, lines 448-449: the catch block warns and returns nothing
    THEN [tk EXCEPT !.pc = "done", !.result = Result("ok", ""), !.warn = code,
                    !.trace = Log(tk, what)]
    ELSE [tk EXCEPT !.pc = "done", !.result = Result("error", code), !.trace = Log(tk, what)]

\* onFileDeleted's finally block, run when the throw was inside it
AfterThrow(tk) ==
  IF tk.kind = "delete" THEN [uploadedFiles EXCEPT ![tk.fileId] = NoRecord] ELSE uploadedFiles

\* GsConfig without the `!config` test: reading config.serverUrl of null throws
GsConfigNoCheck(t) ==
  LET tk == tasks[t]
      cfg == config[tk.acct]
      v == validateServerUrl(cfg.serverUrl)
  IN /\ tk.pc = "gs_cfg"
     /\ IF cfg = NoConfig \/ ~v.ok
          THEN /\ tasks' = [tasks EXCEPT ![t] =
                    Thrown(tk, IF cfg = NoConfig THEN "TYPE_ERROR" ELSE "INVALID_URL", "storage.get")]
               /\ uploadedFiles' = AfterThrow(tk)
          ELSE /\ tasks' = [tasks EXCEPT ![t] =
                    [tk EXCEPT !.cfg = cfg, !.serverUrl = v.origin,
                               !.api = apiCache[tk.acct],
                               !.pc = IF apiCache[tk.acct] # NoApi THEN "gs_ping1" ELSE "gs_tok",
                               !.trace = Log(tk, "storage.get")]]
               /\ UNCHANGED uploadedFiles
     /\ UNCHANGED <<config, vault, apiCache, srvTok, nSaves, nCalls, deleted, aborted>>

\* lines 320-334: load the config, validate its URL, look into the cache
GsConfig(t) ==
  LET tk == tasks[t]
      cfg == config[tk.acct]
      v == validateServerUrl(cfg.serverUrl)
  IN /\ tk.pc = "gs_cfg"
     /\ IF cfg = NoConfig \/ cfg.serverUrl = NoUrl
          THEN /\ tasks' = [tasks EXCEPT ![t] = Thrown(tk, "NO_CONFIG", "storage.get")]
               /\ uploadedFiles' = AfterThrow(tk)
        ELSE IF ~v.ok
          THEN /\ tasks' = [tasks EXCEPT ![t] = Thrown(tk, "INVALID_URL", "storage.get")]
               /\ uploadedFiles' = AfterThrow(tk)
        ELSE /\ tasks' = [tasks EXCEPT ![t] =
                  [tk EXCEPT !.cfg = cfg, !.serverUrl = v.origin,
                             !.api = apiCache[tk.acct],
                             !.pc = IF apiCache[tk.acct] # NoApi THEN "gs_ping1" ELSE "gs_tok",
                             !.trace = Log(tk, "storage.get")]]
             /\ UNCHANGED uploadedFiles
     /\ UNCHANGED <<config, vault, apiCache, srvTok, nSaves, nCalls, deleted, aborted>>

\* GsPing1 without the `return api`: a live cached instance is evicted too
GsPing1NoReturn(t) ==
  LET tk == tasks[t] IN
  /\ tk.pc = "gs_ping1"
  /\ \E out \in {IF pingOk(tk.api) THEN "ping.ok" ELSE "ping.fail", "ping.throw"} :
       /\ tasks' = [tasks EXCEPT ![t] = [tk EXCEPT !.pc = "gs_tok", !.api = NoApi,
                                                   !.trace = Log(tk, out)]]
       /\ apiCache' = [apiCache EXCEPT ![tk.acct] = NoApi]
  /\ UNCHANGED <<config, vault, uploadedFiles, srvTok, nSaves, nCalls, deleted, aborted>>

\* lines 328-334: the cached instance's ping came back (or threw)
GsPing1(t) ==
  LET tk == tasks[t] IN
  /\ tk.pc = "gs_ping1"
  /\ \E out \in {IF pingOk(tk.api) THEN "ping.ok" ELSE "ping.fail", "ping.throw"} :
       IF out = "ping.ok"
         THEN /\ tasks' = [tasks EXCEPT ![t] = Returned(tk, tk.api, out)]
              /\ UNCHANGED apiCache
         ELSE /\ tasks' = [tasks EXCEPT ![t] = [tk EXCEPT !.pc = "gs_tok", !.api = NoApi,
                                                         !.trace = Log(tk, out)]]
              /\ apiCache' = [apiCache EXCEPT ![tk.acct] = NoApi]
  /\ UNCHANGED <<config, vault, uploadedFiles, srvTok, nSaves, nCalls, deleted, aborted>>

\* lines 337-340: the stored token was read from the vault
GsToken(t) ==
  LET tk == tasks[t]
      storedToken == getSecret(vault, tk.serverUrl, REALMS.TOKEN)
  IN /\ tk.pc = "gs_tok"
     /\ tasks' = [tasks EXCEPT ![t] =
          IF storedToken # ""
            THEN [tk EXCEPT !.pc = "gs_ping2", !.api = Api(tk.serverUrl, storedToken, 2),
                            !.trace = Log(tk, "vault.get")]
            ELSE [tk EXCEPT !.pc = "gs_cred", !.trace = Log(tk, "vault.get")]]
     /\ UNCHANGED <<config, vault, apiCache, uploadedFiles, srvTok, nSaves, nCalls, deleted, aborted>>

\* GsPing2 without the try/catch around the ping: a rejected fetch leaves
\* getAuthenticatedAPI
GsPing2Propagates(t) ==
  LET tk == tasks[t] IN
  /\ tk.pc = "gs_ping2"
  /\ \E out \in {IF pingOk(tk.api) THEN "ping.ok" ELSE "ping.fail", "ping.throw"} :
       IF out = "ping.ok"
         THEN /\ tasks' = [tasks EXCEPT ![t] = Returned(tk, tk.api, out)]
              /\ apiCache' = [apiCache EXCEPT ![tk.acct] = tk.api]
         ELSE /\ tasks' = [tasks EXCEPT ![t] =
                   IF out = "ping.throw" THEN Thrown(tk, "NETWORK", out)
                   ELSE [tk EXCEPT !.pc = "gs_cred", !.api = NoApi, !.trace = Log(tk, out)]]
              /\ UNCHANGED apiCache
  /\ UNCHANGED <<config, vault, uploadedFiles, srvTok, nSaves, nCalls, deleted, aborted>>

\* GsPing2 without the apiCache.set
GsPing2NoCache(t) ==
  LET tk == tasks[t] IN
  /\ tk.pc = "gs_ping2"
  /\ \E out \in {IF pingOk(tk.api) THEN "ping.ok" ELSE "ping.fail", "ping.throw"} :
       tasks' = [tasks EXCEPT ![t] =
         IF out = "ping.ok" THEN Returned(tk, tk.api, out)
         ELSE [tk EXCEPT !.pc = "gs_cred", !.api = NoApi, !.trace = Log(tk, out)]]
  /\ UNCHANGED <<config, vault, apiCache, uploadedFiles, srvTok, nSaves, nCalls, deleted, aborted>>

\* lines 341-347: the stored token's ping came back (or threw)
GsPing2(t) ==
  LET tk == tasks[t] IN
  /\ tk.pc = "gs_ping2"
  /\ \E out \in {IF pingOk(tk.api) THEN "ping.ok" ELSE "ping.fail", "ping.throw"} :
       IF out = "ping.ok"
         THEN /\ tasks' = [tasks EXCEPT ![t] = Returned(tk, tk.api, out)]
              /\ apiCache' = [apiCache EXCEPT ![tk.acct] = tk.api]
         ELSE /\ tasks' = [tasks EXCEPT ![t] = [tk EXCEPT !.pc = "gs_cred", !.api = NoApi,
                                                         !.trace = Log(tk, out)]]
              /\ UNCHANGED apiCache
  /\ UNCHANGED <<config, vault, uploadedFiles, srvTok, nSaves, nCalls, deleted, aborted>>

\* GsCredentials without the `!credentials` test: credentials.username of
\* null throws
GsCredentialsNoCheck(t) ==
  LET tk == tasks[t]
      credentials == getCredentials(vault, tk.serverUrl, REALMS.PASSWORD)
  IN /\ tk.pc = "gs_cred"
     /\ IF credentials = NoLogin
          THEN /\ tasks' = [tasks EXCEPT ![t] = Thrown(tk, "TYPE_ERROR", "vault.get")]
               /\ uploadedFiles' = AfterThrow(tk)
          ELSE /\ tasks' = [tasks EXCEPT ![t] =
                    [tk EXCEPT !.pc = "gs_auth", !.creds = credentials,
                               !.api = Api(tk.serverUrl, "", 3), !.trace = Log(tk, "vault.get")]]
               /\ UNCHANGED uploadedFiles
     /\ UNCHANGED <<config, vault, apiCache, srvTok, nSaves, nCalls, deleted, aborted>>

\* lines 350-359: the password login was read from the vault
GsCredentials(t) ==
  LET tk == tasks[t]
      credentials == getCredentials(vault, tk.serverUrl, REALMS.PASSWORD)
  IN /\ tk.pc = "gs_cred"
     /\ IF credentials = NoLogin
          THEN /\ tasks' = [tasks EXCEPT ![t] = Thrown(tk, "NO_CREDENTIALS", "vault.get")]
               /\ uploadedFiles' = AfterThrow(tk)
          ELSE /\ tasks' = [tasks EXCEPT ![t] =
                    [tk EXCEPT !.pc = "gs_auth", !.creds = credentials,
                               !.api = Api(tk.serverUrl, "", 3), !.trace = Log(tk, "vault.get")]]
               /\ UNCHANGED uploadedFiles
     /\ UNCHANGED <<config, vault, apiCache, srvTok, nSaves, nCalls, deleted, aborted>>

\* what the auth-token endpoint can answer to a request without an OTP header
AuthResponses(url, creds) ==
  (IF creds.password = GoodPw THEN {"200", "missing2fa"} ELSE {"400"}) \cup {"throw"}

\* SeafileAPI.authenticate, lines 95-113: the error the response is turned into
authenticateError(resp) ==
  IF resp = "missing2fa" THEN "2FA_REQUIRED"
  ELSE IF resp = "invalid2fa" THEN "2FA_INVALID"
  ELSE IF resp = "throw" THEN "NETWORK"
  ELSE "AUTH_FAILED"

\* line 359: authenticate's response arrived
GsAuthenticate(t) ==
  LET tk == tasks[t] IN
  /\ tk.pc = "gs_auth"
  /\ \E resp \in AuthResponses(tk.serverUrl, tk.creds) :
       IF resp = "200"
         THEN /\ tasks' = [tasks EXCEPT ![t] =
                   [tk EXCEPT !.pc = "gs_save", !.api.token = srvTok[tk.serverUrl],
                              !.trace = Log(tk, "auth.ok")]]
              /\ UNCHANGED uploadedFiles
         ELSE /\ tasks' = [tasks EXCEPT ![t] = Thrown(tk, authenticateError(resp), "auth.fail")]
              /\ uploadedFiles' = AfterThrow(tk)
  /\ UNCHANGED <<config, vault, apiCache, srvTok, nSaves, nCalls, deleted, aborted>>

\* GsPersist without the apiCache.set
GsPersistNoCache(t) ==
  LET tk == tasks[t]
      saved == saveSecret(vault, tk.serverUrl, REALMS.TOKEN, tk.creds.username, tk.api.token)
  IN /\ tk.pc = "gs_save"
     /\ vault' = saved.lm
     /\ tasks' = [tasks EXCEPT ![t] = Returned(tk, tk.api, "vault.put")]
     /\ UNCHANGED <<config, apiCache, uploadedFiles, srvTok, nSaves, nCalls, deleted, aborted>>

\* lines 362-365: the new token was saved; cache the instance and return it
GsPersist(t) ==
  LET tk == tasks[t]
      saved == saveSecret(vault, tk.serverUrl, REALMS.TOKEN, tk.creds.username, tk.api.token)
  IN /\ tk.pc = "gs_save"
     /\ IF saved.ok
          THEN /\ vault' = saved.lm
               /\ apiCache' = [apiCache EXCEPT ![tk.acct] = tk.api]
               /\ tasks' = [tasks EXCEPT ![t] = Returned(tk, tk.api, "vault.put")]
               /\ UNCHANGED uploadedFiles
          ELSE /\ tasks' = [tasks EXCEPT ![t] = Thrown(tk, "VAULT", "vault.put")]
               /\ uploadedFiles' = AfterThrow(tk)
               /\ UNCHANGED <<vault, apiCache>>
     /\ UNCHANGED <<config, srvTok, nSaves, nCalls, deleted, aborted>>

getAuthenticatedAPI(t) ==
  \/ GsConfig(t)
  \/ GsPing1(t)
  \/ GsToken(t)
  \/ GsPing2(t)
  \/ GsCredentials(t)
  \/ GsAuthenticate(t)
  \/ GsPersist(t)


\* ----------------------------------------------------------- onFileUpload
\* HTTP statuses the service answers with
Statuses == {200, 400, 403, 409, 500}
\* in place of a status: the fetch was rejected (no response)
NetworkError == -1
ResponseOk(status) == status >= 200 /\ status <= 299

\* upload links the service can hand out: its own file server, a foreign
\* host, and a string that is no URL
UploadLinks(serverUrl) ==
  {Url(serverUrl.scheme, serverUrl.host, 8082, "/upload-api/x"),
   Url("https", "evil", 0, "/upload-api/x"),
   Url("?", "", 0, "")}

\* line 374-380: the config was loaded again; mkdir is requested
UpConfig(t) ==
  LET tk == tasks[t]
      cfg == config[tk.acct]
  IN /\ tk.pc = "up_cfg"
     /\ tasks' = [tasks EXCEPT ![t] =
          IF cfg = NoConfig
            THEN Thrown(tk, "TYPE_ERROR", "storage.get")
            ELSE [tk EXCEPT !.pc = "up_mkdir",
                            !.cfg = [cfg EXCEPT !.uploadDir =
                               sanitizePath(IF cfg.uploadDir = <<>> THEN DefaultUploadDir
                                            ELSE cfg.uploadDir)],
                            !.trace = Log(tk, "storage.get")]]
     /\ UNCHANGED <<config, vault, apiCache, uploadedFiles, srvTok, nSaves, nCalls, deleted, aborted>>

\* ensureDirectory that takes only a 2xx answer as success
ensureDirectoryOkStrict(status) == ResponseOk(status)

\* SeafileAPI.ensureDirectory, line 138: does this response count as success
ensureDirectoryOk(status) == ResponseOk(status) \/ status = 409 \/ status = 400

\* UpEnsureDirectory that asks for the upload link also after a failed mkdir
UpEnsureDirectoryGoesOn(t) ==
  LET tk == tasks[t] IN
  /\ tk.pc = "up_mkdir"
  /\ \E status \in Statuses \cup {NetworkError} :
       tasks' = [tasks EXCEPT ![t] =
         IF status = NetworkError
           THEN Thrown([tk EXCEPT !.status = status], "NETWORK", "mkdir.fail")
         ELSE [tk EXCEPT !.pc = "up_ticket", !.status = status,
                         !.trace = Log(tk, IF ensureDirectoryOk(status) THEN "mkdir.ok"
                                           ELSE "mkdir.fail")]]
  /\ UNCHANGED <<config, vault, apiCache, uploadedFiles, srvTok, nSaves, nCalls, deleted, aborted>>

\* line 380-383: mkdir's response arrived
UpEnsureDirectory(t) ==
  LET tk == tasks[t] IN
  /\ tk.pc = "up_mkdir"
  /\ \E status \in Statuses \cup {NetworkError} :
       tasks' = [tasks EXCEPT ![t] =
         IF status = NetworkError
           THEN Thrown([tk EXCEPT !.status = status], "NETWORK", "mkdir.fail")
         ELSE IF ensureDirectoryOk(status)
           THEN [tk EXCEPT !.pc = "up_ticket", !.status = status, !.trace = Log(tk, "mkdir.ok")]
         ELSE Thrown([tk EXCEPT !.status = status], "MKDIR_FAILED", "mkdir.fail")]
  /\ UNCHANGED <<config, vault, apiCache, uploadedFiles, srvTok, nSaves, nCalls, deleted, aborted>>

\* getUploadLink without the hostname comparison
getUploadLinkNoHostCheck(serverUrl, status, link) ==
  IF ~ResponseOk(status) THEN "UPLOAD_LINK_FAILED"
  ELSE IF link.scheme = "?" \/ link.scheme = "" THEN "UPLOAD_LINK_INVALID"
  ELSE ""

\* SeafileAPI.getUploadLink, lines 152-173: "" when the link is returned
getUploadLink(serverUrl, status, link) ==
  IF ~ResponseOk(status) THEN "UPLOAD_LINK_FAILED"
  ELSE IF link.scheme = "?" \/ link.scheme = "" THEN "UPLOAD_LINK_INVALID"
  ELSE IF link.host # serverUrl.host THEN "UPLOAD_LINK_UNTRUSTED"
  ELSE ""

\* the upload-link endpoint's answers: a rejected fetch, an error status
\* (no link in the body), or 200 with a link
UploadLinkResponses(serverUrl) ==
  {<<NetworkError, NoUrl>>, <<403, NoUrl>>} \cup {<<200, link>> : link \in UploadLinks(serverUrl)}

\* line 383-385: the upload-link response arrived; the bytes are posted
UpUploadLink(t) ==
  LET tk == tasks[t] IN
  /\ tk.pc = "up_ticket"
  /\ \E resp \in UploadLinkResponses(tk.api.serverUrl) :
       LET code == getUploadLink(tk.api.serverUrl, resp[1], resp[2]) IN
       tasks' = [tasks EXCEPT ![t] =
         IF resp[1] = NetworkError THEN Thrown(tk, "NETWORK", "ticket.fail")
         ELSE IF code # "" THEN Thrown([tk EXCEPT !.link = resp[2]], code, "ticket.fail")
         ELSE [tk EXCEPT !.pc = "up_upload", !.link = resp[2], !.trace = Log(tk, "ticket.ok")]]
  /\ UNCHANGED <<config, vault, apiCache, uploadedFiles, srvTok, nSaves, nCalls, deleted, aborted>>

\* UpUploadFile that registers the uploadedFiles entry as soon as the bytes
\* are up, before the share link exists
UpUploadFileRegisters(t) ==
  LET tk == tasks[t] IN
  /\ tk.pc = "up_upload"
  /\ \E status \in {NetworkError, 200, 500} :
       IF status = NetworkError \/ ~ResponseOk(status)
         THEN /\ tasks' = [tasks EXCEPT ![t] =
                   Thrown(tk, IF status = NetworkError THEN "NETWORK" ELSE "UPLOAD_FAILED",
                          "upload.fail")]
              /\ UNCHANGED uploadedFiles
         ELSE /\ tasks' = [tasks EXCEPT ![t] =
                   [tk EXCEPT !.pc = "up_sharepw", !.trace = Log(tk, "upload.ok")]]
              /\ uploadedFiles' = [uploadedFiles EXCEPT ![tk.fileId] =
                   Record(tk.cfg.repoId, sanitizePath(tk.cfg.uploadDir \o <<"/">> \o tk.name),
                          tk.acct)]
  /\ UNCHANGED <<config, vault, apiCache, srvTok, nSaves, nCalls, deleted, aborted>>

\* line 385-395: the multipart POST was answered; the share password is read
UpUploadFile(t) ==
  LET tk == tasks[t] IN
  /\ tk.pc = "up_upload"
  /\ \E status \in {NetworkError, 200, 500} :
       tasks' = [tasks EXCEPT ![t] =
         IF status = NetworkError THEN Thrown(tk, "NETWORK", "upload.fail")
         ELSE IF ~ResponseOk(status) THEN Thrown(tk, "UPLOAD_FAILED", "upload.fail")
         ELSE [tk EXCEPT !.pc = "up_sharepw", !.trace = Log(tk, "upload.ok")]]
  /\ UNCHANGED <<config, vault, apiCache, uploadedFiles, srvTok, nSaves, nCalls, deleted, aborted>>

\* SeafileAPI.createShareLink, lines 201-211: the request body
createShareLinkBody(path, options) ==
  Body(sanitizePath(path),
       options.password,
       IF options.expireDays > 0 THEN validatePositiveInt(options.expireDays) ELSE -1)

\* line 388: `${uploadDir}/${name}`
FilePath(tk) == sanitizePath(tk.cfg.uploadDir \o <<"/">> \o tk.name)

\* lines 391-403: the share password was read; the share link is requested
UpSharePassword(t) ==
  LET tk == tasks[t]
      sharePw == getSecret(vault, validateServerUrl(tk.cfg.serverUrl).origin, REALMS.SHARE_PW)
      options == [password |-> sharePw,
                  expireDays |-> IF tk.cfg.shareLinkExpireDays > 0
                                   THEN tk.cfg.shareLinkExpireDays ELSE 0]
  IN /\ tk.pc = "up_sharepw"
     /\ tasks' = [tasks EXCEPT ![t] =
          [tk EXCEPT !.pc = "up_share", !.sharePw = sharePw,
                     !.body = createShareLinkBody(FilePath(tk), options),
                     !.trace = Log(tk, "vault.get")]]
     /\ UNCHANGED <<config, vault, apiCache, uploadedFiles, srvTok, nSaves, nCalls, deleted, aborted>>

\* UploadResult whose templateInfo never carries download_expiry_date
UploadResultNoExpiry(tk) ==
  [kind |-> "ok", code |-> "", url |-> TRUE, expiry |-> 0, pwFlag |-> tk.sharePw # ""]

\* lines 414-428: the value the listener returns after a share link was made
UploadResult(tk) ==
  [kind |-> "ok", code |-> "", url |-> TRUE,
   expiry |-> IF tk.cfg.shareLinkExpireDays > 0 THEN tk.cfg.shareLinkExpireDays ELSE 0,
   pwFlag |-> tk.sharePw # ""]

\* lines 403-428: the share-link response arrived
UpShareLink(t) ==
  LET tk == tasks[t] IN
  /\ tk.pc = "up_share"
  /\ \E status \in {NetworkError, 200, 500} :
       IF ResponseOk(status)
         THEN /\ uploadedFiles' = [uploadedFiles EXCEPT ![tk.fileId] =
                   Record(tk.cfg.repoId, FilePath(tk), tk.acct)]
              /\ tasks' = [tasks EXCEPT ![t] =
                   [tk EXCEPT !.pc = "done", !.result = UploadResult(tk),
                              !.trace = Log(tk, "share.ok")]]
         ELSE /\ tasks' = [tasks EXCEPT ![t] =
                   Thrown(tk, IF status = NetworkError THEN "NETWORK" ELSE "SHARE_LINK_FAILED", "share.fail")]
              /\ UNCHANGED uploadedFiles
  /\ UNCHANGED <<config, vault, apiCache, srvTok, nSaves, nCalls, deleted, aborted>>

onFileUpload(t) ==
  \/ UpConfig(t)
  \/ UpEnsureDirectory(t)
  \/ UpUploadLink(t)
  \/ UpUploadFile(t)
  \/ UpSharePassword(t)
  \/ UpShareLink(t)

\* ---------------------------------------------------------- onFileDeleted
\* onFileDeleted that drops the entry only when the remote delete succeeded
onFileDeletedKeepsOnFailure(t) ==
  LET tk == tasks[t] IN
  /\ tk.pc = "del_req"
  /\ \E out \in {"delete.ok", "delete.fail", "delete.throw"} :
       /\ tasks' = [tasks EXCEPT ![t] =
            [tk EXCEPT !.pc = "done",
                       !.result = Result("ok", ""),
                       !.warn = IF out = "delete.throw" THEN "NETWORK" ELSE "",
                       !.trace = Log(tk, out)]]
       /\ uploadedFiles' = IF out = "delete.ok"
                             THEN [uploadedFiles EXCEPT ![tk.fileId] = NoRecord]
                             ELSE uploadedFiles
  /\ UNCHANGED <<config, vault, apiCache, srvTok, nSaves, nCalls, deleted, aborted>>

\* lines 447-452: deleteFile was answered (or threw); the entry is dropped
onFileDeleted(t) ==
  LET tk == tasks[t] IN
  /\ tk.pc = "del_req"
  /\ \E out \in {"delete.ok", "delete.fail", "delete.throw"} :
       tasks' = [tasks EXCEPT ![t] =
         [tk EXCEPT !.pc = "done",
                    !.result = Result("ok", ""),
                    !.warn = IF out = "delete.throw" THEN "NETWORK" ELSE "",
                    !.trace = Log(tk, out)]]
  /\ uploadedFiles' = [uploadedFiles EXCEPT ![tk.fileId] = NoRecord]
  /\ UNCHANGED <<config, vault, apiCache, srvTok, nSaves, nCalls, deleted, aborted>>

\* -------------------------------------------------------- onAccountDeleted
\* lines 456-457: the config was loaded
AdConfig(t) ==
  LET tk == tasks[t]
      cfg == config[tk.acct]
  IN /\ tk.pc = "ad_cfg"
     /\ tasks' = [tasks EXCEPT ![t] =
          [tk EXCEPT !.cfg = cfg,
                     !.pc = IF cfg # NoConfig /\ cfg.serverUrl # NoUrl THEN "ad_vault" ELSE "ad_store",
                     !.trace = Log(tk, "storage.get")]]
     /\ UNCHANGED <<config, vault, apiCache, uploadedFiles, srvTok, nSaves, nCalls, deleted, aborted>>

\* line 460: removeAllForHost ran
AdRemoveAllForHost(t) ==
  LET tk == tasks[t] IN
  /\ tk.pc = "ad_vault"
  /\ vault' = removeAllForHost(vault, tk.cfg.serverUrl)
  /\ tasks' = [tasks EXCEPT ![t] = [tk EXCEPT !.pc = "ad_store", !.trace = Log(tk, "vault.remove")]]
  /\ UNCHANGED <<config, apiCache, uploadedFiles, srvTok, nSaves, nCalls, deleted, aborted>>

\* removeAllForHost's loop, stopped by a throw after the first k realms
removeAllForHostUpTo(lm, hostname, k) ==
  LET origin == validateHostname(hostname).origin
  IN SelectSeq(lm, LAMBDA l :
       ~(l.origin = origin /\ \E i \in 1..k : l.realm = ALLOWED_REALMS[i]))

\* a throw of removeAllForHost that leaves the handler, as without try/catch
AdRemoveAllForHostPropagates(t) ==
  LET tk == tasks[t] IN
  /\ tk.pc = "ad_vault"
  /\ \E k \in 0..2 : vault' = removeAllForHostUpTo(vault, tk.cfg.serverUrl, k)
  /\ tasks' = [tasks EXCEPT ![t] =
       [tk EXCEPT !.pc = "done", !.result = Result("error", "VAULT"),
                  !.trace = Log(tk, "vault.remove.throw")]]
  /\ UNCHANGED <<config, apiCache, uploadedFiles, srvTok, nSaves, nCalls, deleted, aborted>>

\* lines 459-463: removeAllForHost threw; the catch block warns and goes on
AdRemoveAllForHostThrows(t) ==
  LET tk == tasks[t] IN
  /\ tk.pc = "ad_vault"
  /\ \E k \in 0..2 : vault' = removeAllForHostUpTo(vault, tk.cfg.serverUrl, k)
  /\ tasks' = [tasks EXCEPT ![t] =
       [tk EXCEPT !.pc = "ad_store", !.warn = "VAULT", !.trace = Log(tk, "vault.remove.throw")]]
  /\ UNCHANGED <<config, apiCache, uploadedFiles, srvTok, nSaves, nCalls, deleted, aborted>>

\* lines 465-466: the config entry was removed; the cached instance is dropped
AdRemoveConfig(t) ==
  LET tk == tasks[t] IN
  /\ tk.pc = "ad_store"
  /\ config' = [config EXCEPT ![tk.acct] = NoConfig]
  /\ apiCache' = [apiCache EXCEPT ![tk.acct] = NoApi]
  /\ tasks' = [tasks EXCEPT ![t] =
       [tk EXCEPT !.pc = "done", !.result = Result("ok", ""), !.trace = Log(tk, "storage.remove")]]
  /\ deleted' = IF tk.cfg # NoConfig THEN deleted \cup {tk.acct} ELSE deleted
  /\ UNCHANGED <<vault, uploadedFiles, srvTok, nSaves, nCalls, aborted>>

onAccountDeleted(t) ==
  \/ AdConfig(t)
  \/ AdRemoveAllForHost(t)
  \/ AdRemoveConfig(t)

\* -------------------------------------------------------------- saveConfig
\* lines 527-529: the password was saved
SvPassword(t) ==
  LET tk == tasks[t]
      saved == saveSecret(vault, tk.serverUrl, REALMS.PASSWORD, tk.inp.username, tk.inp.password)
  IN /\ tk.pc = "sv_pw"
     /\ vault' = saved.lm
     /\ tasks' = [tasks EXCEPT ![t] =
          IF ~saved.ok THEN Thrown(tk, "VAULT", "vault.put")
          ELSE [tk EXCEPT !.pc = IF tk.inp.apiToken # "" THEN "sv_tok" ELSE "sv_share",
                          !.trace = Log(tk, "vault.put")]]
     /\ UNCHANGED <<config, apiCache, uploadedFiles, srvTok, nSaves, nCalls, deleted, aborted>>

\* lines 531-535: the API token was saved
SvToken(t) ==
  LET tk == tasks[t]
      saved == saveSecret(vault, tk.serverUrl, REALMS.TOKEN, tk.inp.username, tk.inp.apiToken)
  IN /\ tk.pc = "sv_tok"
     /\ vault' = saved.lm
     /\ tasks' = [tasks EXCEPT ![t] =
          IF ~saved.ok THEN Thrown(tk, "VAULT", "vault.put")
          ELSE [tk EXCEPT !.pc = "sv_share", !.trace = Log(tk, "vault.put")]]
     /\ UNCHANGED <<config, apiCache, uploadedFiles, srvTok, nSaves, nCalls, deleted, aborted>>

\* SvSharePassword without the else branch: a cleared share password stays
SvSharePasswordKeeps(t) ==
  LET tk == tasks[t]
      saved == saveSecret(vault, tk.serverUrl, REALMS.SHARE_PW, tk.inp.username,
                          tk.inp.shareLinkPassword)
  IN /\ tk.pc = "sv_share"
     /\ vault' = saved.lm
     /\ tasks' = [tasks EXCEPT ![t] =
          IF ~saved.ok THEN Thrown(tk, "VAULT", "vault.put")
          ELSE [tk EXCEPT !.pc = "sv_store", !.trace = Log(tk, "vault.put")]]
     /\ UNCHANGED <<config, apiCache, uploadedFiles, srvTok, nSaves, nCalls, deleted, aborted>>

\* lines 537-544: the share password was saved, or the realm cleared
SvSharePassword(t) ==
  LET tk == tasks[t]
      saved == IF tk.inp.shareLinkPassword # ""
                 THEN saveSecret(vault, tk.serverUrl, REALMS.SHARE_PW, tk.inp.username,
                                 tk.inp.shareLinkPassword)
                 ELSE [ok |-> TRUE, lm |-> removeSecret(vault, tk.serverUrl, REALMS.SHARE_PW)]
  IN /\ tk.pc = "sv_share"
     /\ vault' = saved.lm
     /\ tasks' = [tasks EXCEPT ![t] =
          IF ~saved.ok THEN Thrown(tk, "VAULT", "vault.put")
          ELSE [tk EXCEPT !.pc = "sv_store",
                          !.trace = Log(tk, IF tk.inp.shareLinkPassword # "" THEN "vault.put"
                                            ELSE "vault.remove")]]
     /\ UNCHANGED <<config, apiCache, uploadedFiles, srvTok, nSaves, nCalls, deleted, aborted>>

\* storageConfig that copies the form's apiToken into the stored record
storageConfigWithToken(serverUrl, inp) ==
  [serverUrl |-> serverUrl, username |-> inp.username, repoId |-> "lib1", repoName |-> "Lib",
   uploadDir |-> sanitizePath(IF inp.uploadDir = <<>> THEN DefaultUploadDir ELSE inp.uploadDir),
   shareLinkExpireDays |-> validatePositiveInt(inp.shareLinkExpireDays),
   hasShareLinkPassword |-> inp.shareLinkPassword # "",
   apiToken |-> inp.apiToken]

\* lines 547-556: the record written to storage.local
storageConfig(serverUrl, inp) ==
  Config(serverUrl, inp.username,
         sanitizePath(IF inp.uploadDir = <<>> THEN DefaultUploadDir ELSE inp.uploadDir),
         validatePositiveInt(inp.shareLinkExpireDays),
         inp.shareLinkPassword # "")

\* lines 558-562: the config was stored; the cached instance is dropped
SvStore(t) ==
  LET tk == tasks[t] IN
  /\ tk.pc = "sv_store"
  /\ config' = [config EXCEPT ![tk.acct] = storageConfig(tk.serverUrl, tk.inp)]
  /\ apiCache' = [apiCache EXCEPT ![tk.acct] = NoApi]
  /\ tasks' = [tasks EXCEPT ![t] = [tk EXCEPT !.pc = "sv_upd", !.trace = Log(tk, "storage.set")]]
  /\ deleted' = deleted \ {tk.acct}
  /\ UNCHANGED <<vault, uploadedFiles, srvTok, nSaves, nCalls, aborted>>

\* lines 565-569: updateAccount resolved
SvUpdateAccount(t) ==
  LET tk == tasks[t] IN
  /\ tk.pc = "sv_upd"
  /\ tasks' = [tasks EXCEPT ![t] = [tk EXCEPT !.pc = "done", !.result = Result("ok", "")]]
  /\ UNCHANGED <<config, vault, apiCache, uploadedFiles, srvTok, nSaves, nCalls, deleted, aborted>>

\* line 558: storage.local.set rejected; the catch block returns the error
SvStoreThrows(t) ==
  LET tk == tasks[t] IN
  /\ tk.pc = "sv_store"
  /\ tasks' = [tasks EXCEPT ![t] = Thrown(tk, "STORAGE", "storage.set.throw")]
  /\ UNCHANGED <<config, vault, apiCache, uploadedFiles, srvTok, nSaves, nCalls, deleted, aborted>>

\* line 565: cloudFile.updateAccount rejected; the catch block returns the error
SvUpdateAccountThrows(t) ==
  LET tk == tasks[t] IN
  /\ tk.pc = "sv_upd"
  /\ tasks' = [tasks EXCEPT ![t] = Thrown(tk, "UPDATE_ACCOUNT", "updateAccount.throw")]
  /\ UNCHANGED <<config, vault, apiCache, uploadedFiles, srvTok, nSaves, nCalls, deleted, aborted>>

saveConfig(t) ==
  \/ SvPassword(t)
  \/ SvToken(t)
  \/ SvSharePassword(t)
  \/ SvStore(t)
  \/ SvUpdateAccount(t)

\* -------------------------------------------------------------- loadConfig
\* lines 577-580: the config was loaded; null when there is none
LdConfig(t) ==
  LET tk == tasks[t]
      cfg == config[tk.acct]
      v == validateServerUrl(cfg.serverUrl)
  IN /\ tk.pc = "ld_cfg"
     /\ tasks' = [tasks EXCEPT ![t] =
          IF cfg = NoConfig \/ ~v.ok
            THEN [tk EXCEPT !.pc = "done", !.result = Result("null", ""),
                            !.trace = Log(tk, "storage.get")]
            ELSE [tk EXCEPT !.pc = "ld_cred", !.cfg = cfg, !.serverUrl = v.origin,
                            !.trace = Log(tk, "storage.get")]]
     /\ UNCHANGED <<config, vault, apiCache, uploadedFiles, srvTok, nSaves, nCalls, deleted, aborted>>

\* lines 583-586: the password login was read
LdCredentials(t) ==
  LET tk == tasks[t] IN
  /\ tk.pc = "ld_cred"
  /\ tasks' = [tasks EXCEPT ![t] =
       [tk EXCEPT !.pc = "ld_share",
                  !.creds = getCredentials(vault, tk.serverUrl, REALMS.PASSWORD),
                  !.trace = Log(tk, "vault.get")]]
  /\ UNCHANGED <<config, vault, apiCache, uploadedFiles, srvTok, nSaves, nCalls, deleted, aborted>>

\* lines 587-593: the share password was read; config, password ("" when
\* there is no login) and shareLinkPassword are returned
LdSharePassword(t) ==
  LET tk == tasks[t] IN
  /\ tk.pc = "ld_share"
  /\ tasks' = [tasks EXCEPT ![t] =
       [tk EXCEPT !.pc = "done",
                  !.sharePw = getSecret(vault, tk.serverUrl, REALMS.SHARE_PW),
                  !.result = Result("ok", ""),
                  !.trace = Log(tk, "vault.get")]]
  /\ UNCHANGED <<config, vault, apiCache, uploadedFiles, srvTok, nSaves, nCalls, deleted, aborted>>

loadConfig(t) ==
  \/ LdConfig(t)
  \/ LdCredentials(t)
  \/ LdSharePassword(t)

\* ------------------------------------------------------ handler invocations
NewTask(kind, pc, acct) == [IdleTask EXCEPT !.kind = kind, !.pc = pc, !.acct = acct]

\* getAuthenticatedAPI(accountId) called on its own
StartSession(limit, a) ==
  /\ nCalls < MaxCalls
  /\ \E t \in FreeSlot(limit) : tasks' = [tasks EXCEPT ![t] = NewTask("session", "gs_cfg", a)]
  /\ nCalls' = nCalls + 1
  /\ UNCHANGED <<config, vault, apiCache, uploadedFiles, srvTok, nSaves, deleted, aborted>>

\* cloudFile.onFileUpload fires for a file id the host has not used yet
StartUpload(limit, a, f, name) ==
  /\ nCalls < MaxCalls
  /\ uploadedFiles[f] = NoRecord
  /\ f \notin aborted
  /\ \A u \in TaskIds : tasks[u].fileId # f
  /\ \E t \in FreeSlot(limit) :
       tasks' = [tasks EXCEPT ![t] =
         [NewTask("upload", "gs_cfg", a) EXCEPT !.fileId = f, !.name = name]]
  /\ nCalls' = nCalls + 1
  /\ UNCHANGED <<config, vault, apiCache, uploadedFiles, srvTok, nSaves, deleted, aborted>>

\* cloudFile.onFileDeleted fires, lines 442-443
StartDelete(limit, a, f) ==
  /\ nCalls < MaxCalls
  /\ \E t \in FreeSlot(limit) :
       tasks' = [tasks EXCEPT ![t] =
         IF uploadedFiles[f] = NoRecord
           THEN [NewTask("delete", "done", a) EXCEPT !.fileId = f, !.result = Result("ok", "")]
           ELSE [NewTask("delete", "gs_cfg", a) EXCEPT !.fileId = f,
                                                       !.fileInfo = uploadedFiles[f]]]
  /\ nCalls' = nCalls + 1
  /\ UNCHANGED <<config, vault, apiCache, uploadedFiles, srvTok, nSaves, deleted, aborted>>

\* cloudFile.onFileUploadAbort fires, lines 437-439
onFileUploadAbort(limit, f) ==
  /\ Cardinality(Running) < limit
  /\ uploadedFiles' = [uploadedFiles EXCEPT ![f] = NoRecord]
  /\ aborted' = IF \E t \in TaskIds : /\ tasks[t].kind = "upload"
                                       /\ tasks[t].fileId = f
                                       /\ tasks[t].pc = "up_upload"
                  THEN aborted \cup {f} ELSE aborted
  /\ UNCHANGED <<config, vault, apiCache, srvTok, tasks, nSaves, nCalls, deleted>>

\* cloudFile.onAccountDeleted fires
StartAccountDeleted(limit, a) ==
  /\ nCalls < MaxCalls
  /\ \E t \in FreeSlot(limit) : tasks' = [tasks EXCEPT ![t] = NewTask("acctDeleted", "ad_cfg", a)]
  /\ nCalls' = nCalls + 1
  /\ UNCHANGED <<config, vault, apiCache, uploadedFiles, srvTok, nSaves, deleted, aborted>>

\* a saveConfig message arrives, lines 523-524
StartSave(limit, a, inp) ==
  LET v == validateServerUrl(inp.serverUrl) IN
  /\ nSaves < MaxSaves
  /\ \E t \in FreeSlot(limit) :
       tasks' = [tasks EXCEPT ![t] =
         IF v.ok
           THEN [NewTask("save", "sv_pw", a) EXCEPT !.inp = inp, !.serverUrl = v.origin,
                                                    !.before = <<vault, config, apiCache>>]
           ELSE [NewTask("save", "done", a) EXCEPT !.inp = inp,
                                                   !.before = <<vault, config, apiCache>>,
                                                   !.result = Result("error", "INVALID_URL")]]
  /\ nSaves' = nSaves + 1
  /\ UNCHANGED <<config, vault, apiCache, uploadedFiles, srvTok, nCalls, deleted, aborted>>

\* a loadConfig message arrives
StartLoad(limit, a) ==
  /\ nCalls < MaxCalls
  /\ \E t \in FreeSlot(limit) : tasks' = [tasks EXCEPT ![t] = NewTask("load", "ld_cfg", a)]
  /\ nCalls' = nCalls + 1
  /\ UNCHANGED <<config, vault, apiCache, uploadedFiles, srvTok, nSaves, deleted, aborted>>

\* ------------------------------------------------- the session lifecycle
\* The forms saved for an account.  a1: on the first server every user and
\* API-token choice, and the password left empty; on the second server one
\* form, with a share password.  a2: one form, on the first server.
SessionForms(a) ==
  IF a = "a1"
    THEN {Input(Url1, user, GoodPw, tok, "", 0) : user \in Users, tok \in {"", "t1"}}
         \cup {Input(Url1, "u1", "", tok, "", 0) : tok \in {"", "t1"}}
         \cup {Input(Url2, "u1", GoodPw, "", SharePw, 7)}
    ELSE {Input(Url1, "u1", GoodPw, "", "", 0)}

\* save-config, getAuthenticatedAPI and account deletion, one handler at a time
Next ==
  \/ \E a \in Accounts : StartSession(1, a)
  \/ \E a \in Accounts : StartAccountDeleted(1, a)
  \/ \E a \in Accounts : \E inp \in SessionForms(a) : StartSave(1, a, inp)
  \/ \E t \in TaskIds : getAuthenticatedAPI(t)
  \/ \E t \in TaskIds : onAccountDeleted(t)
  \/ \E t \in TaskIds : saveConfig(t)
  \/ \E t \in TaskIds : Finish(t)
  \/ \E o \in Origins : ExpireToken(o)
  \/ Restart

Spec == Init /\ [][Next]_vars

\* As Next, and the login manager may throw inside removeAllForHost
NextCleanup ==
  \/ Next
  \/ \E t \in TaskIds : AdRemoveAllForHostThrows(t)

SpecCleanup == Init /\ [][NextCleanup]_vars

\* ------------------------------------------------ what saveConfig stores
\* upload folders typed into the form; <<>> is the empty field
UploadDirs == {<<>>, <<"/", "d">>, <<".", ".", "/", "/", "d">>, <<"d", ".", ".", ".">>}
\* expiry days as the form sends them
ExpireDays == {-1, 0, 7, 400}

\* The forms of the save runs.  a1: every user, share password, expiry and
\* folder; a2, on the same server and with an API token: with and without a
\* share password.
SaveForms(a) ==
  IF a = "a1"
    THEN {[Input(Url1, user, GoodPw, "", sharePw, days) EXCEPT !.uploadDir = dir] :
            user \in Users, sharePw \in {"", SharePw}, days \in ExpireDays, dir \in UploadDirs}
    ELSE {Input(Url1, "u1", GoodPw, "t1", sharePw, 0) : sharePw \in {"", SharePw}}

\* save-config requests, for either account, one handler at a time
NextSave ==
  \/ \E a \in Accounts : \E inp \in SaveForms(a) : StartSave(1, a, inp)
  \/ \E t \in TaskIds : saveConfig(t)
  \/ \E t \in TaskIds : Finish(t)

SpecSave == Init /\ [][NextSave]_vars

\* ---------------------------------------------- a save and what follows it
\* The forms of these runs.  a1: either user, either password, with and
\* without a share password; a2: one form, with an API token.
RoundTripForms(a) ==
  IF a = "a1"
    THEN {Input(Url1, user, pw, "", sharePw, 0) :
            user \in Users, pw \in {GoodPw, BadPw}, sharePw \in {"", SharePw}}
    ELSE {Input(Url2, "u1", GoodPw, "t1", "", 0)}

\* the last handler that ended is a saveConfig of account a, and its answer
\* is still at hand
JustSaved(a) ==
  /\ tasks[1].kind = "save" /\ tasks[1].pc = "done" /\ tasks[1].acct = a
  /\ \A t \in TaskIds : t > 1 => tasks[t].kind = "idle"

\* saveConfig requests one at a time, each followed by loadConfig and
\* getAuthenticatedAPI calls for the account just saved
NextRoundTrip ==
  \/ \E a \in Accounts : \E inp \in RoundTripForms(a) : StartSave(1, a, inp)
  \/ \E a \in Accounts : JustSaved(a) /\ StartLoad(2, a)
  \/ \E a \in Accounts : JustSaved(a) /\ StartSession(2, a)
  \/ \E t \in TaskIds : saveConfig(t)
  \/ \E t \in TaskIds : loadConfig(t)
  \/ \E t \in TaskIds : getAuthenticatedAPI(t)
  \/ \E t \in TaskIds : Finish(t)

SpecRoundTrip == Init /\ [][NextRoundTrip]_vars

\* ----------------------------------------------------- saves that fail
\* The forms of these runs: a server URL that is rejected, and accepted ones
\* with and without an API token and a share password.
FaultForms(a) ==
  IF a = "a1"
    THEN {Input(Url1, "u1", GoodPw, tok, sharePw, 0) : tok \in {"", "t1"}, sharePw \in {"", SharePw}}
         \cup {Input(Url("ftp", "h1", 0, ""), "u1", GoodPw, "", "", 0)}
    ELSE {Input(Url2, "u1", GoodPw, "", "", 0)}

\* save-config requests one at a time; storage.local.set and
\* cloudFile.updateAccount may reject
NextSaveFaults ==
  \/ \E a \in Accounts : \E inp \in FaultForms(a) : StartSave(1, a, inp)
  \/ \E a \in Accounts : StartSession(1, a)
  \/ \E t \in TaskIds : saveConfig(t)
  \/ \E t \in TaskIds : SvStoreThrows(t)
  \/ \E t \in TaskIds : SvUpdateAccountThrows(t)
  \/ \E t \in TaskIds : getAuthenticatedAPI(t)
  \/ \E t \in TaskIds : Finish(t)

SpecSaveFaults == Init /\ [][NextSaveFaults]_vars

\* ------------------------------------------- recovery from token expiry
\* The forms saved in the recovery runs: either user, with the password the
\* server accepts or one it rejects, with or without an API token.
RecoverForms(a) ==
  IF a = "a1"
    THEN {Input(Url1, user, pw, "", "", 0) : user \in Users, pw \in {GoodPw, BadPw}}
         \cup {Input(Url1, "u1", GoodPw, "t1", "", 0)}
    ELSE {Input(Url2, "u1", GoodPw, "", "", 0)}

\* the auth-token request of handler t, if it has sent one, was answered, and
\* by the password alone: the server is reachable and asks for no OTP
AuthAccepted(t) == tasks[t].result.code \notin {"NETWORK", "2FA_REQUIRED", "2FA_INVALID"}

\* one awaited call of getAuthenticatedAPI returns and the handler goes on
SessionStep == \E t \in TaskIds : getAuthenticatedAPI(t) /\ AuthAccepted(t)'

\* save-config and getAuthenticatedAPI, one handler at a time; tokens expire
\* between the calls
NextRecover ==
  \/ \E a \in Accounts : StartSession(1, a)
  \/ \E a \in Accounts : \E inp \in RecoverForms(a) : StartSave(1, a, inp)
  \/ SessionStep
  \/ \E t \in TaskIds : saveConfig(t)
  \/ \E t \in TaskIds : Finish(t)
  \/ \E o \in Origins : Running = {} /\ ExpireToken(o)
  \/ Restart

\* every awaited call of getAuthenticatedAPI eventually returns
SpecRecover == Init /\ [][NextRecover]_vars /\ WF_vars(SessionStep)

\* ------------------------------- a save while a session is being acquired
\* The forms of these runs: a1 on either server, a2 on the first one and with
\* an API token.
RaceForms(a) ==
  IF a = "a1"
    THEN {Input(Url1, "u1", GoodPw, "", "", 0), Input(Url2, "u1", GoodPw, "", "", 0)}
    ELSE {Input(Url1, "u1", GoodPw, "t1", "", 0)}

\* save-config and getAuthenticatedAPI; a saveConfig message may be handled
\* between two awaited calls of a getAuthenticatedAPI call, and the reverse
NextRace ==
  \/ \E a \in Accounts : StartSession(2, a)
  \/ \E a \in Accounts : \E inp \in RaceForms(a) : StartSave(2, a, inp)
  \/ \E t \in TaskIds : getAuthenticatedAPI(t)
  \/ \E t \in TaskIds : saveConfig(t)
  \/ \E t \in TaskIds : Finish(t)

SpecRace == Init /\ [][NextRace]_vars

\* ------------------------- an account deleted while a session is acquired
\* the server each account is configured for in these runs
ServerOf(a) == IF a = "a1" THEN Url1 ELSE Url2

\* The forms of these runs: each account on its own server, with and without
\* an API token.
DeletionForms(a) == {Input(ServerOf(a), "u1", GoodPw, tok, "", 0) : tok \in {"", "t1"}}

\* saveConfig one at a time; onAccountDeleted and getAuthenticatedAPI may run
\* between each other's awaited calls
NextDeletion ==
  \/ \E a \in Accounts : \E inp \in DeletionForms(a) : StartSave(1, a, inp)
  \/ \E a \in Accounts : StartSession(2, a)
  \/ \E a \in Accounts : StartAccountDeleted(2, a)
  \/ \E t \in TaskIds : saveConfig(t)
  \/ \E t \in TaskIds : getAuthenticatedAPI(t)
  \/ \E t \in TaskIds : onAccountDeleted(t)
  \/ \E t \in TaskIds : Finish(t)

SpecDeletion == Init /\ [][NextDeletion]_vars

\* ------------------------------------- handlers of two accounts, interleaved
\* The forms of the two accounts: a1 on either server, a2 on the first one
\* and with an API token.
PairForms(a) ==
  IF a = "a1"
    THEN {Input(Url1, "u1", GoodPw, "", SharePw, 7), Input(Url2, "u1", GoodPw, "", "", 0)}
    ELSE {Input(Url1, "u1", GoodPw, "t1", "", 0)}

\* no handler of account a is in flight
NoHandlerFor(a) == \A t \in TaskIds : tasks[t].acct # a

\* save-config, getAuthenticatedAPI and account deletion; a handler of one
\* account may run between the awaited calls of a handler of the other
NextPair ==
  \/ \E a \in Accounts : NoHandlerFor(a) /\ StartSession(2, a)
  \/ \E a \in Accounts : NoHandlerFor(a) /\ StartAccountDeleted(2, a)
  \/ \E a \in Accounts : \E inp \in PairForms(a) : NoHandlerFor(a) /\ StartSave(2, a, inp)
  \/ \E t \in TaskIds : getAuthenticatedAPI(t)
  \/ \E t \in TaskIds : onAccountDeleted(t)
  \/ \E t \in TaskIds : saveConfig(t)
  \/ \E t \in TaskIds : Finish(t)

SpecPair == Init /\ [][NextPair]_vars


\* ---------------------------------------------------- the upload handlers
\* The forms saved for an account in the upload runs: with and without a
\* stored API token, with and without share options.
UploadForms(a) ==
  IF a = "a1"
    THEN {Input(Url1, "u1", GoodPw, "t1", "", 0), Input(Url1, "u1", GoodPw, "", SharePw, 7)}
    ELSE {Input(Url2, "u1", GoodPw, "t1", "", 400), Input(Url2, "u1", GoodPw, "t1", SharePw, 0)}

\* save-config, upload, abort and delete events, one handler at a time
NextUpload ==
  \/ \E a \in Accounts : \E inp \in UploadForms(a) : StartSave(1, a, inp)
  \/ \E a \in Accounts, f \in FileIds, name \in FileNames : StartUpload(1, a, f, name)
  \/ \E a \in Accounts, f \in FileIds : StartDelete(1, a, f)
  \/ \E f \in FileIds : onFileUploadAbort(1, f)
  \/ \E t \in TaskIds : saveConfig(t)
  \/ \E t \in TaskIds : getAuthenticatedAPI(t)
  \/ \E t \in TaskIds : onFileUpload(t)
  \/ \E t \in TaskIds : onFileDeleted(t)
  \/ \E t \in TaskIds : Finish(t)
  \/ Restart

SpecUpload == Init /\ [][NextUpload]_vars

\* ------------------------------------------- aborts of uploads in flight
\* As NextUpload, and the abort event may fire while an upload handler is
\* between two of its awaited calls.
NextAbort ==
  \/ \E a \in Accounts : \E inp \in UploadForms(a) : StartSave(1, a, inp)
  \/ \E a \in Accounts, f \in FileIds, name \in FileNames : StartUpload(1, a, f, name)
  \/ \E a \in Accounts, f \in FileIds : StartDelete(1, a, f)
  \/ \E f \in FileIds : onFileUploadAbort(2, f)
  \/ \E t \in TaskIds : saveConfig(t)
  \/ \E t \in TaskIds : getAuthenticatedAPI(t)
  \/ \E t \in TaskIds : onFileUpload(t)
  \/ \E t \in TaskIds : onFileDeleted(t)
  \/ \E t \in TaskIds : Finish(t)

SpecAbort == Init /\ [][NextAbort]_vars

\* ------------------------------------------------ the SeafileAPI methods
\* the methods that go through _request, and uploadFile, which sends the
\* same Authorization header with its own fetch
ClientOps ==
  {"ping", "listRepos", "ensureDirectory", "getUploadLink", "uploadFile",
   "createShareLink", "deleteFile", "getAccountInfo"}

\* a SeafileAPI whose token field is still the constructor's null has token ""
ClientTokens == {""} \cup Tokens

\* what the service answers to a request carrying the instance's token
ClientResponses(api) ==
  {<<NetworkError, NoUrl>>}
    \cup (IF pingOk(api)
            THEN {<<500, NoUrl>>, <<409, NoUrl>>}
                   \cup {<<200, link>> : link \in UploadLinks(api.serverUrl)}
            ELSE {<<401, NoUrl>>})

\* the value a method returns, or the error it throws, for a response
clientResult(op, api, status, link) ==
  LET failed(code) == IF ResponseOk(status) THEN Result("ok", "") ELSE Result("error", code) IN
  IF status = NetworkError THEN Result("error", "NETWORK")
  ELSE IF op \in {"ping", "deleteFile"}
    THEN Result(IF ResponseOk(status) THEN "true" ELSE "false", "")
  ELSE IF op = "listRepos" THEN failed("LIST_REPOS_FAILED")
  ELSE IF op = "ensureDirectory"
    THEN (IF ensureDirectoryOk(status) THEN Result("ok", "") ELSE Result("error", "MKDIR_FAILED"))
  ELSE IF op = "getUploadLink"
    THEN (IF getUploadLink(api.serverUrl, status, link) = "" THEN Result("ok", "")
          ELSE Result("error", getUploadLink(api.serverUrl, status, link)))
  ELSE IF op = "uploadFile" THEN failed("UPLOAD_FAILED")
  ELSE IF op = "createShareLink" THEN failed("SHARE_LINK_FAILED")
  ELSE failed("ACCOUNT_INFO_FAILED")

\* a method is called on an instance: _request (or uploadFile) builds the
\* Authorization header from this.token and calls fetch, lines 243-260
StartClient(limit, op, url, tok) ==
  /\ nCalls < MaxCalls
  /\ \E t \in FreeSlot(limit) :
       tasks' = [tasks EXCEPT ![t] =
         [IdleTask EXCEPT !.kind = "client", !.pc = "cl_fetch", !.op = op,
                          !.api = Api(url, tok, 0), !.trace = <<"fetch">>]]
  /\ nCalls' = nCalls + 1
  /\ UNCHANGED <<config, vault, apiCache, uploadedFiles, srvTok, nSaves, deleted, aborted>>

\* fetch settled; the method returns or throws
ClientAnswer(t) ==
  LET tk == tasks[t] IN
  /\ tk.pc = "cl_fetch"
  /\ \E resp \in ClientResponses(tk.api) :
       tasks' = [tasks EXCEPT ![t] =
         [tk EXCEPT !.pc = "done", !.status = resp[1], !.link = resp[2],
                    !.result = clientResult(tk.op, tk.api, resp[1], resp[2])]]
  /\ UNCHANGED <<config, vault, apiCache, uploadedFiles, srvTok, nSaves, nCalls, deleted, aborted>>

NextClient ==
  \/ \E op \in ClientOps, url \in Origins, tok \in ClientTokens : StartClient(1, op, url, tok)
  \/ \E t \in TaskIds : ClientAnswer(t)
  \/ \E t \in TaskIds : Finish(t)
  \/ \E o \in Origins : ExpireToken(o)

SpecClient == Init /\ [][NextClient]_vars

\* ------------------------------------------- the loginManager API, called
\* realms a caller of the experiment API can pass: the three allowed ones,
\* the empty string and a realm of some other extension
VaultRealms == {ALLOWED_REALMS[i] : i \in 1..Len(ALLOWED_REALMS)} \cup {"", "Other Realm"}

\* hostnames a caller can pass: two origins, a URL of another scheme, nothing
VaultHostnames == {OriginOf(Url1), OriginOf(Url2), Url("ftp", "h1", 0, ""), NoUrl}

VaultOps == {"saveCredentials", "getCredentials", "removeCredentials"}

\* the argument checks that open saveCredentials (lines 98-106),
\* getCredentials (137-138) and removeCredentials (155-156): the error
\* thrown, or "" when the call goes on to the login manager
vaultThrows(op, hostname, realm, username) ==
  IF ~validateHostname(hostname).ok THEN "HOSTNAME"
  ELSE IF ~validateRealm(realm) THEN "REALM"
  ELSE IF op = "saveCredentials" /\ username = "" THEN "USERNAME"
  ELSE ""

\* the login manager calls a vault call makes once its arguments passed
vaultAccesses(lm, op, origin, realm, username) ==
  LET found == findLoginsForRealm(lm, origin, realm)
      removed == IF op = "getCredentials" THEN <<>>
                 ELSE IF op = "removeCredentials" THEN found
                 ELSE SelectSeq(found, LAMBDA l : l.username = username)
  IN <<"lm.search">> \o [k \in 1..Len(removed) |-> "lm.remove"]
       \o (IF op = "saveCredentials" THEN <<"lm.add">> ELSE <<>>)

\* one call of the experiment API, from its argument checks to its return
VaultCall(limit, op, hostname, realm, username, password) ==
  LET code == vaultThrows(op, hostname, realm, username)
      origin == validateHostname(hostname).origin
  IN /\ nCalls < MaxCalls
     /\ \E t \in FreeSlot(limit) :
          tasks' = [tasks EXCEPT ![t] =
            [IdleTask EXCEPT
               !.kind = "vault", !.pc = "done", !.op = op, !.serverUrl = hostname,
               !.creds = Login(hostname, realm, username, password),
               !.result = IF code # "" THEN Result("error", code) ELSE Result("ok", ""),
               !.trace = IF code # "" THEN <<>>
                         ELSE vaultAccesses(vault, op, origin, realm, username)]]
     /\ vault' = IF code # "" THEN vault
                 ELSE IF op = "saveCredentials"
                   THEN saveCredentials(vault, hostname, realm, username, password).lm
                 ELSE IF op = "removeCredentials" THEN removeCredentials(vault, hostname, realm)
                 ELSE vault
     /\ nCalls' = nCalls + 1
     /\ UNCHANGED <<config, apiCache, uploadedFiles, srvTok, nSaves, deleted, aborted>>

NextVault ==
  \/ \E op \in VaultOps, hostname \in VaultHostnames, realm \in VaultRealms,
        username \in {"", "u1", "u2"}, password \in {GoodPw, "t1"} :
       VaultCall(1, op, hostname, realm, username, password)
  \/ \E t \in TaskIds : Finish(t)

SpecVault == Init /\ [][NextVault]_vars

\* ------------------------------------------------- the input validators
\* every store empty and nothing cached, as after construction
Quiet ==
  /\ config = [a \in Accounts |-> NoConfig]
  /\ vault = <<>>
  /\ apiCache = [a \in Accounts |-> NoApi]
  /\ uploadedFiles = [f \in FileIds |-> NoRecord]
  /\ srvTok = [o \in Origins |-> "t1"]
  /\ nSaves = 0
  /\ nCalls = 0
  /\ deleted = {}
  /\ aborted = {}

\* one call in the first slot
OneCall(tk) == [t \in TaskIds |-> IF t = 1 THEN tk ELSE IdleTask]

\* paths of up to MaxPathLen characters out of ".", "/" and a letter
PathChars == {".", "/", "a"}
Paths == UNION {[1..k -> PathChars] : k \in 0..MaxPathLen}

InitPath ==
  /\ Quiet
  /\ \E path \in Paths :
       tasks = OneCall([IdleTask EXCEPT !.kind = "sanitize", !.pc = "call", !.name = path])

\* sanitizePath(path) returns
SanitizeCall(t) ==
  LET tk == tasks[t] IN
  /\ tk.kind = "sanitize"
  /\ tk.pc = "call"
  /\ tasks' = [tasks EXCEPT ![t] =
       [tk EXCEPT !.pc = "done", !.body = Body(sanitizePath(tk.name), "", -1),
                  !.result = Result("ok", "")]]
  /\ UNCHANGED <<config, vault, apiCache, uploadedFiles, srvTok, nSaves, nCalls, deleted, aborted>>

NextPath ==
  \/ \E t \in TaskIds : SanitizeCall(t)
  \/ \E t \in TaskIds : Finish(t)

SpecPath == InitPath /\ [][NextPath]_vars

\* URLs a user can type: with or without port and path, upper-case host,
\* another scheme, no URL at all
UrlInputs ==
  {Url(scheme, host, port, path) :
     scheme \in {"https", "http", "ftp", "?", ""}, host \in {"h1", "H1"},
     port \in {0, 80, 443, 8443}, path \in {"", "/", "/x/"}}

Normalizers == {"validateServerUrl", "validateHostname"}

normalize(op, url) == IF op = "validateServerUrl" THEN validateServerUrl(url) ELSE validateHostname(url)

InitUrl ==
  /\ Quiet
  /\ \E url \in UrlInputs, op \in Normalizers :
       tasks = OneCall([IdleTask EXCEPT !.kind = "normalize", !.pc = "nz_first", !.op = op,
                                        !.serverUrl = url])

\* the normalizer returns an origin or throws
NormalizeFirst(t) ==
  LET tk == tasks[t]
      v == normalize(tk.op, tk.serverUrl)
  IN /\ tk.kind = "normalize"
     /\ tk.pc = "nz_first"
     /\ tasks' = [tasks EXCEPT ![t] =
          IF v.ok THEN [tk EXCEPT !.pc = "nz_second", !.link = v.origin]
          ELSE [tk EXCEPT !.pc = "done", !.result = Result("error", "INVALID_URL")]]
     /\ UNCHANGED <<config, vault, apiCache, uploadedFiles, srvTok, nSaves, nCalls, deleted, aborted>>

\* the normalizer is applied to the origin it returned (as the SeafileAPI
\* constructor, line 71, does with getAuthenticatedAPI's serverUrl)
NormalizeSecond(t) ==
  LET tk == tasks[t]
      v == normalize(tk.op, tk.link)
  IN /\ tk.kind = "normalize"
     /\ tk.pc = "nz_second"
     /\ tasks' = [tasks EXCEPT ![t] =
          IF v.ok THEN [tk EXCEPT !.pc = "done", !.api = Api(v.origin, "", 0),
                                  !.result = Result("ok", "")]
          ELSE [tk EXCEPT !.pc = "done", !.result = Result("error", "INVALID_URL")]]
     /\ UNCHANGED <<config, vault, apiCache, uploadedFiles, srvTok, nSaves, nCalls, deleted, aborted>>

NextUrl ==
  \/ \E t \in TaskIds : NormalizeFirst(t)
  \/ \E t \in TaskIds : NormalizeSecond(t)
  \/ \E t \in TaskIds : Finish(t)

SpecUrl == InitUrl /\ [][NextUrl]_vars

\* expireDays options given to createShareLink; 0 stands for an absent one
ExpireInputs == {-2, -1, 0, 1, 2, 7, 364, 365, 366, 367, 1000}

InitShare ==
  /\ Quiet
  /\ \E days \in ExpireInputs, pw \in {"", SharePw}, path \in {<<"/", "a">>, <<"a">>, <<".", ".", "/", "/", "a">>} :
       tasks = OneCall([IdleTask EXCEPT !.kind = "share", !.pc = "call", !.name = path,
                                        !.sharePw = pw, !.status = days])

\* createShareLink has built its request body, lines 201-211
ShareBodyCall(t) ==
  LET tk == tasks[t] IN
  /\ tk.kind = "share"
  /\ tk.pc = "call"
  /\ tasks' = [tasks EXCEPT ![t] =
       [tk EXCEPT !.pc = "done",
                  !.body = createShareLinkBody(tk.name, [password |-> tk.sharePw,
                                                         expireDays |-> tk.status]),
                  !.result = Result("ok", "")]]
  /\ UNCHANGED <<config, vault, apiCache, uploadedFiles, srvTok, nSaves, nCalls, deleted, aborted>>

NextShare ==
  \/ \E t \in TaskIds : ShareBodyCall(t)
  \/ \E t \in TaskIds : Finish(t)

SpecShare == InitShare /\ [][NextShare]_vars

\* ------------------------------------------------------------------ claims
SessionDone(t) == tasks[t].kind = "session" /\ tasks[t].pc = "done"
Probes(tr) == Count(tr, "ping.ok") + Count(tr, "ping.fail") + Count(tr, "ping.throw")
AuthCalls(tr) == Count(tr, "auth.ok") + Count(tr, "auth.fail")
ProbeFailed(x) == x = "ping.fail" \/ x = "ping.throw"

C1_Reused(t) ==
  LET tk == tasks[t] IN
  (SessionDone(t) /\ Len(tk.trace) >= 2 /\ tk.trace[2] = "ping.ok")
    => /\ tk.trace = <<"storage.get", "ping.ok">>
       /\ tk.result = Result("ok", "")
       /\ tk.api # NoApi
       /\ tk.api = apiCache[tk.acct]

C1_Frame ==
  \A t \in TaskIds :
    /\ tasks[t].pc = "gs_cfg" => (vault' = vault /\ apiCache' = apiCache)
    /\ (tasks[t].pc = "gs_ping1" /\ tasks'[t].pc = "done")
         => /\ vault' = vault
            /\ apiCache' = apiCache
            /\ tasks'[t].api = apiCache[tasks[t].acct]

\* C1: a getAuthenticatedAPI call whose cached instance answers the ping
\* returns that cached instance after the config read and exactly one ping,
\* with no authenticate call and no vault access, and the steps of that call
\* leave the vault and the cache as they were.
C1_CachedSessionReused == [](\A t \in TaskIds : C1_Reused(t)) /\ [][C1_Frame]_vars

C1_Witness ==
  \E t \in TaskIds : SessionDone(t) /\ tasks[t].trace = <<"storage.get", "ping.ok">>

\* the token realm of the task's origin holds some token the server accepts
StoredTokenAccepted(tk) ==
  \E i \in 1..Len(vault) :
    /\ vault[i].origin = tk.serverUrl
    /\ vault[i].realm = REALMS.TOKEN
    /\ pingOk(Api(tk.serverUrl, vault[i].password, 2))

\* C2 as stated: after a failed probe of the cached instance, with an
\* accepted token in the token realm, the call makes exactly one probe and no
\* authenticate call and returns and caches an instance with the stored token.
C2_OneProbeOnly ==
  \A t \in TaskIds :
    LET tk == tasks[t] IN
    (SessionDone(t) /\ Len(tk.trace) >= 2 /\ ProbeFailed(tk.trace[2]) /\ StoredTokenAccepted(tk))
      => /\ Probes(tk.trace) = 1
         /\ AuthCalls(tk.trace) = 0
         /\ tk.result = Result("ok", "")
         /\ tk.api = apiCache[tk.acct]

C2_Tier2(t) ==
  LET tk == tasks[t] IN
  (SessionDone(t) /\ Len(tk.trace) >= 4 /\ ProbeFailed(tk.trace[2])
     /\ tk.trace[3] = "vault.get" /\ tk.trace[4] = "ping.ok")
    => /\ Len(tk.trace) = 4
       /\ Probes(tk.trace) = 2
       /\ AuthCalls(tk.trace) = 0
       /\ tk.result = Result("ok", "")
       /\ tk.api = Api(tk.serverUrl, getSecret(vault, tk.serverUrl, REALMS.TOKEN), 2)
       /\ apiCache[tk.acct] = tk.api

C2_Frame ==
  \A t \in TaskIds :
    (tasks[t].pc \in {"gs_tok", "gs_ping2"} /\ tasks'[t].pc # "gs_cred") => vault' = vault

\* C2, amended: when the cached instance fails its probe and the token that
\* the vault returns for the origin passes its probe, the call makes exactly
\* two probes (one per tier) and no authenticate call, writes nothing to the
\* vault, and returns and caches an instance carrying that stored token.
C2_StoredTokenReused == [](\A t \in TaskIds : C2_Tier2(t)) /\ [][C2_Frame]_vars

C2_Witness ==
  \E t \in TaskIds :
    /\ SessionDone(t)
    /\ tasks[t].trace \in {<<"storage.get", x, "vault.get", "ping.ok">> : x \in {"ping.fail", "ping.throw"}}

\* C3: a call that authenticated did so exactly once, and when it returns the
\* token from that authentication is the secret the vault gives for the
\* origin's token realm.
C3_TokenPersisted ==
  \A t \in TaskIds :
    LET tk == tasks[t] IN
    (SessionDone(t) /\ Count(tk.trace, "auth.ok") > 0)
      => /\ AuthCalls(tk.trace) = 1
         /\ getSecret(vault, tk.serverUrl, REALMS.TOKEN) = tk.api.token

C4_First(t) ==
  LET tk == tasks[t] IN
  (SessionDone(t) /\ Len(tk.trace) >= 4
     /\ SubSeq(tk.trace, 1, 4) = <<"storage.get", "vault.get", "vault.get", "auth.ok">>)
    => /\ tk.trace = <<"storage.get", "vault.get", "vault.get", "auth.ok", "vault.put">>
       /\ tk.result = Result("ok", "")
       /\ tk.api.tier = 3
       /\ apiCache[tk.acct] = tk.api
       /\ getSecret(vault, tk.serverUrl, REALMS.TOKEN) = tk.api.token

C4_Second(t) ==
  LET tk == tasks[t] IN
  (SessionDone(t) /\ Len(tk.trace) >= 2 /\ tk.trace[2] = "ping.ok" /\ tk.api.tier = 3)
    => /\ tk.trace = <<"storage.get", "ping.ok">>
       /\ tk.result = Result("ok", "")
       /\ apiCache[tk.acct] = tk.api

C4_Frame ==
  \A t \in TaskIds :
    (tasks[t].pc = "gs_ping1" /\ tasks[t].api.tier = 3 /\ tasks'[t].pc = "done")
      => (vault' = vault /\ apiCache' = apiCache)

\* C4: a call that finds neither a cached instance nor a stored token and
\* whose authentication succeeds authenticates once, caches the instance and
\* leaves its token as the origin's stored token; a later call that finds
\* that instance cached and live returns it after one ping, with no
\* authenticate call and no vault write.
C4_ScenarioA ==
  [](\A t \in TaskIds : C4_First(t) /\ C4_Second(t)) /\ [][C4_Frame]_vars

C4_Witness ==
  \E t \in TaskIds :
    /\ SessionDone(t)
    /\ tasks[t].trace = <<"storage.get", "ping.ok">>
    /\ tasks[t].api.tier = 3
    /\ getSecret(vault, tasks[t].serverUrl, REALMS.TOKEN) = tasks[t].api.token

NoPasswordSecret(a) ==
  getCredentials(vault, validateServerUrl(config[a].serverUrl).origin, REALMS.PASSWORD) = NoLogin

\* C6: a call fails with NO_CREDENTIALS exactly when the account has a
\* config, no probe succeeded and the origin has no password login; then
\* authenticate was not called and the cache has no entry for the account.
C6_NoCredentials ==
  \A t \in TaskIds :
    LET tk == tasks[t] IN
    SessionDone(t)
      => /\ (tk.result = Result("error", "NO_CREDENTIALS"))
              <=> (/\ config[tk.acct] # NoConfig
                   /\ Count(tk.trace, "ping.ok") = 0
                   /\ NoPasswordSecret(tk.acct))
         /\ (tk.result = Result("error", "NO_CREDENTIALS"))
              => (AuthCalls(tk.trace) = 0 /\ apiCache[tk.acct] = NoApi)

C6_Witness ==
  \E t \in TaskIds :
    /\ SessionDone(t)
    /\ tasks[t].result = Result("error", "NO_CREDENTIALS")
    /\ Probes(tasks[t].trace) = 2

\* no login of any of the three realms for the origin
NoSecretsFor(origin) ==
  \A i \in 1..Len(ALLOWED_REALMS) : findLoginsForRealm(vault, origin, ALLOWED_REALMS[i]) = <<>>

UploadDone(t) == tasks[t].kind = "upload" /\ tasks[t].pc = "done"

\* the requests the upload handler sent after the mkdir request
TicketRequests(tr) == Count(tr, "ticket.ok") + Count(tr, "ticket.fail")
UploadRequests(tr) == Count(tr, "upload.ok") + Count(tr, "upload.fail")
ShareRequests(tr) == Count(tr, "share.ok") + Count(tr, "share.fail")

\* the handler got a session and then every request of the upload succeeded
AllStepsSucceeded(tk) ==
  /\ tk.api # NoApi
  /\ Len(tk.trace) >= 7
  /\ tk.trace[Len(tk.trace) - 6] \in {"ping.ok", "vault.put"}
  /\ SubSeq(tk.trace, Len(tk.trace) - 5, Len(tk.trace))
       = <<"storage.get", "mkdir.ok", "ticket.ok", "upload.ok", "vault.get", "share.ok">>

C8_Returned(t) ==
  LET tk == tasks[t] IN
  UploadDone(t)
    => /\ tk.result.kind \in {"ok", "error"}
       /\ ~AllStepsSucceeded(tk) => tk.result.kind = "error"
       /\ tk.result.kind = "error"
            => /\ ~tk.result.url
               /\ tk.result.expiry = 0
               /\ ~tk.result.pwFlag
               /\ uploadedFiles[tk.fileId] = NoRecord
       /\ tk.result.url
            => /\ AllStepsSucceeded(tk)
               /\ tk.result.kind = "ok"
               /\ uploadedFiles[tk.fileId] # NoRecord

C8_Frame ==
  \A t \in TaskIds :
    (tasks[t].kind = "upload" /\ tasks[t].pc # "done" /\ uploadedFiles' # uploadedFiles)
      => (tasks'[t].pc = "done" /\ tasks'[t].result.url)

\* C8: an upload handler that failed to get a session, or whose mkdir,
\* upload-link, upload or share-link request failed, returns an error with no
\* URL and no template info and leaves no uploadedFiles entry for the file
\* id; it returns a URL only after all of these succeeded, and no step of
\* the handler writes uploadedFiles except the one that returns the URL.
C8_AllOrNothing == [](\A t \in TaskIds : C8_Returned(t)) /\ [][C8_Frame]_vars

C8_Witness ==
  \E t \in TaskIds :
    /\ UploadDone(t)
    /\ tasks[t].result = Result("error", "SHARE_LINK_FAILED")
    /\ Count(tasks[t].trace, "upload.ok") = 1
    /\ uploadedFiles[tasks[t].fileId] = NoRecord

\* C9: an upload whose upload link names another host than the instance's
\* server URL ends with UPLOAD_LINK_UNTRUSTED: the handler returns an error
\* and has sent neither the upload request nor the share-link request.
C9_UntrustedUploadTarget ==
  \A t \in TaskIds :
    LET tk == tasks[t] IN
    (tk.kind = "upload" /\ tk.link.scheme \notin {"", "?"} /\ tk.link.host # tk.api.serverUrl.host)
      => /\ tk.pc = "done"
         /\ tk.result = Result("error", "UPLOAD_LINK_UNTRUSTED")
         /\ UploadRequests(tk.trace) = 0
         /\ ShareRequests(tk.trace) = 0

C9_Witness ==
  \E t \in TaskIds :
    /\ UploadDone(t)
    /\ tasks[t].link.host = "evil"
    /\ tasks[t].result = Result("error", "UPLOAD_LINK_UNTRUSTED")

\* C10: after a mkdir answer of 2xx, 409 or 400 the upload handler goes on
\* to request the upload link; after any other status it ends with
\* MKDIR_FAILED and sends no upload-link, upload or share-link request.
C10_EnsureDirectory ==
  \A t \in TaskIds :
    LET tk == tasks[t] IN
    (tk.kind = "upload" /\ tk.status \in Statuses)
      => IF (tk.status >= 200 /\ tk.status <= 299) \/ tk.status = 409 \/ tk.status = 400
           THEN /\ Count(tk.trace, "mkdir.ok") = 1
                /\ tk.pc = "up_ticket" \/ TicketRequests(tk.trace) = 1
                /\ tk.result.code # "MKDIR_FAILED"
           ELSE /\ tk.pc = "done"
                /\ tk.result = Result("error", "MKDIR_FAILED")
                /\ TicketRequests(tk.trace) = 0
                /\ UploadRequests(tk.trace) = 0
                /\ ShareRequests(tk.trace) = 0

C10_Witness ==
  \E t \in TaskIds :
    /\ UploadDone(t)
    /\ tasks[t].status \in {400, 409}
    /\ tasks[t].result.url

\* ---------------------------------------------------- claims on the abort
\* C11: once the abort event has fired for a file id whose upload link was
\* received and whose upload request was not yet answered, uploadedFiles
\* never holds an entry for that file id, and a delete handler for it ends
\* without loading the config or sending a request.
C11_AbortLeavesNoRecord ==
  \A f \in aborted :
    /\ uploadedFiles[f] = NoRecord
    /\ \A t \in TaskIds :
         (tasks[t].kind = "delete" /\ tasks[t].fileId = f)
           => (tasks[t].pc = "done" /\ tasks[t].trace = <<>>)

\* C12: an upload whose abort event fired while its bytes were in flight
\* is cancelled: its upload request never succeeds, it never asks for the
\* share password or the share link, and it returns no URL.
C12_AbortCancelsUpload ==
  \A t \in TaskIds :
    LET tk == tasks[t] IN
    (tk.kind = "upload" /\ tk.fileId \in aborted)
      => /\ Count(tk.trace, "upload.ok") = 0
         /\ tk.pc \notin {"up_sharepw", "up_share"}
         /\ ShareRequests(tk.trace) = 0
         /\ ~tk.result.url

\* ------------------------------------------------ claims on onFileDeleted
DeleteDone(t) == tasks[t].kind = "delete" /\ tasks[t].pc = "done"

C13_Handled(t) ==
  LET tk == tasks[t] IN
  DeleteDone(t)
    => /\ tk.result = Result("ok", "")
       /\ tk.fileInfo = NoRecord => tk.trace = <<>>
       /\ tk.fileInfo # NoRecord
            => /\ uploadedFiles[tk.fileId] = NoRecord
               /\ Len(tk.trace) > 0

C13_Frame ==
  \A t \in TaskIds :
    (tasks[t].kind = "idle" /\ tasks'[t].kind = "delete" /\ tasks'[t].fileInfo = NoRecord)
      => /\ tasks'[t].pc = "done"
         /\ <<config, vault, apiCache, uploadedFiles, srvTok>>' =
              <<config, vault, apiCache, uploadedFiles, srvTok>>

\* C13: a delete handler for a file id without an uploadedFiles entry ends
\* at once, having read nothing, sent nothing and changed nothing; one that
\* found an entry leaves none behind when it ends, whether the remote delete
\* succeeded, failed or threw or no session could be got, and in every case
\* the handler returns without an error.
C13_DeleteBestEffort == [](\A t \in TaskIds : C13_Handled(t)) /\ [][C13_Frame]_vars

C13_Witness ==
  \E t \in TaskIds :
    /\ DeleteDone(t)
    /\ tasks[t].fileInfo # NoRecord
    /\ tasks[t].warn # ""
    /\ Count(tasks[t].trace, "delete.throw") = 0
    /\ uploadedFiles[tasks[t].fileId] = NoRecord

\* ------------------------------------------- claims on the SeafileAPI methods
\* C14: a method called on an instance without a token fails with
\* UNAUTHENTICATED and calls fetch not once.
C14_Unauthenticated ==
  \A t \in TaskIds :
    LET tk == tasks[t] IN
    (tk.kind = "client" /\ tk.api.token = "")
      => /\ tk.pc = "done"
         /\ tk.result = Result("error", "UNAUTHENTICATED")
         /\ Count(tk.trace, "fetch") = 0

\* C15: ping and deleteFile return a boolean for every outcome of the
\* request, false when the fetch was rejected or the status is not 2xx.
C15_NeverThrows ==
  \A t \in TaskIds :
    LET tk == tasks[t] IN
    (tk.kind = "client" /\ tk.pc = "done" /\ tk.op \in {"ping", "deleteFile"})
      => /\ tk.result.kind \in {"true", "false"}
         /\ tk.result.kind = "true" <=> (tk.status >= 200 /\ tk.status <= 299)

\* ------------------------------------------------ claims on a probe's throw
Last(tr) == tr[Len(tr)]

C16_Frame ==
  \A t \in TaskIds :
    LET tk == tasks[t]
        tn == tasks'[t]
    IN (tk.pc \in {"gs_ping1", "gs_ping2"} /\ tn.kind = tk.kind /\ tn.pc # tk.pc
          /\ ProbeFailed(Last(tn.trace)))
         => /\ tn = [tk EXCEPT !.pc = IF tk.pc = "gs_ping1" THEN "gs_tok" ELSE "gs_cred",
                               !.api = NoApi,
                               !.trace = tn.trace]
            /\ apiCache' = IF tk.pc = "gs_ping1" THEN [apiCache EXCEPT ![tk.acct] = NoApi]
                           ELSE apiCache
            /\ vault' = vault

C16_NotPropagated ==
  \A t \in TaskIds :
    (tasks[t].pc = "done" /\ tasks[t].trace # <<>>) => ~ProbeFailed(Last(tasks[t].trace))

\* C16: a ping that throws and a ping that answers not-ok leave
\* getAuthenticatedAPI in the same state: after tier 1 the cached instance
\* is dropped and the stored token is read next, after tier 2 the
\* credentials are read next, and no call ends on the failed probe.
C16_ProbeThrowIsFailure == []C16_NotPropagated /\ [][C16_Frame]_vars

C16_Witness ==
  \E t \in TaskIds :
    /\ SessionDone(t)
    /\ tasks[t].trace = <<"storage.get", "ping.throw", "vault.get", "ping.throw",
                          "vault.get", "auth.ok", "vault.put">>
    /\ tasks[t].result = Result("ok", "")

\* --------------------------------------------- claims on the loginManager API
C17_Frame ==
  \A t \in TaskIds :
    (tasks[t].kind = "idle" /\ tasks'[t].kind = "vault"
       /\ tasks'[t].creds.realm \notin {REALMS.PASSWORD, REALMS.TOKEN, REALMS.SHARE_PW})
      => vault' = vault

C17_Rejected ==
  \A t \in TaskIds :
    LET tk == tasks[t] IN
    (tk.kind = "vault"
       /\ tk.creds.realm \notin {REALMS.PASSWORD, REALMS.TOKEN, REALMS.SHARE_PW})
      => /\ tk.result.kind = "error"
         /\ tk.trace = <<>>
         /\ \A i \in 1..Len(vault) : vault[i].realm # tk.creds.realm

\* C17: saveCredentials, getCredentials and removeCredentials called with a
\* realm other than the three allowed ones throw before they search,
\* remove or add a login, and the login manager's logins stay as they were.
C17_RealmWhitelist == []C17_Rejected /\ [][C17_Frame]_vars

C17_Witness ==
  \E t \in TaskIds :
    /\ tasks[t].kind = "vault"
    /\ tasks[t].op = "removeCredentials"
    /\ tasks[t].creds.realm = "Other Realm"
    /\ validateHostname(tasks[t].serverUrl).ok
    /\ tasks[t].result = Result("error", "REALM")
    /\ Len(vault) > 0

\* ------------------------------------------------- claims on the validators
\* C18: for every path, sanitizePath's result has no "..", has no two
\* slashes in a row and begins with exactly one slash, and the empty path
\* gives "/".
C18_SanitizedPath ==
  \A t \in TaskIds :
    LET tk == tasks[t]
        out == tk.body.path
    IN (tk.kind = "sanitize" /\ tk.pc = "done")
         => /\ Len(out) >= 1
            /\ out[1] = "/"
            /\ Len(out) >= 2 => out[2] # "/"
            /\ \A i \in 1..(Len(out) - 1) :
                 /\ ~(out[i] = "." /\ out[i + 1] = ".")
                 /\ ~(out[i] = "/" /\ out[i + 1] = "/")
            /\ tk.name = <<>> => out = <<"/">>

C18_Witness ==
  \E t \in TaskIds :
    /\ tasks[t].kind = "sanitize"
    /\ tasks[t].pc = "done"
    /\ tasks[t].name = <<".", ".", "/", "/", "/">>
    /\ tasks[t].body.path = <<"/">>

\* C19: a URL that validateServerUrl or validateHostname accepts is
\* normalized to an http or https origin without a path, and normalizing
\* that origin again gives the same origin; a URL that is empty, does not
\* parse or has another scheme is rejected.
C19_NormalizeIdempotent ==
  \A t \in TaskIds :
    LET tk == tasks[t] IN
    (tk.kind = "normalize" /\ tk.pc = "done")
      => /\ tk.result.kind = "ok" <=> tk.serverUrl.scheme \in {"http", "https"}
         /\ tk.result.kind = "ok"
              => /\ tk.api.serverUrl = tk.link
                 /\ tk.link.scheme \in {"http", "https"}
                 /\ tk.link.path = ""
         /\ tk.result.kind # "ok"
              => /\ tk.result = Result("error", "INVALID_URL")
                 /\ tk.link = NoUrl

C19_Witness ==
  \E t \in TaskIds :
    /\ tasks[t].kind = "normalize"
    /\ tasks[t].pc = "done"
    /\ tasks[t].serverUrl = Url("https", "H1", 443, "/x/")
    /\ tasks[t].api.serverUrl = Url("https", "h1", 0, "")

\* C20: the body createShareLink builds has no expire_days when the
\* expireDays option is absent or not above 0, and otherwise has the
\* smaller of expireDays and 365, a number from 0 to 365; it has a password
\* exactly when a non-empty one was given.
C20_ShareBody ==
  \A t \in TaskIds :
    LET tk == tasks[t]
        days == tk.status
    IN (tk.kind = "share" /\ tk.pc = "done")
         => /\ days <= 0 => tk.body.expire_days = -1
            /\ days > 0
                 => /\ tk.body.expire_days = (IF days < 365 THEN days ELSE 365)
                    /\ tk.body.expire_days >= 0
                    /\ tk.body.expire_days <= 365
            /\ tk.body.password = tk.sharePw

C20_Witness ==
  \E t \in TaskIds :
    /\ tasks[t].kind = "share"
    /\ tasks[t].pc = "done"
    /\ tasks[t].status = 1000
    /\ tasks[t].sharePw = ""
    /\ tasks[t].body.expire_days = 365
    /\ tasks[t].body.password = ""

\* ------------------------------------------- claims on the upload's result
\* C21: the result of a successful upload has a download expiry date iff
\* the stored shareLinkExpireDays is above 0, then that many days ahead, the
\* number of days sent as expire_days; it has the password-protected flag
\* iff the origin's share-password realm held a secret, the one sent as the
\* link's password.
C21_ShareMetadata ==
  \A t \in TaskIds :
    LET tk == tasks[t]
        cfg == config[tk.acct]
        secret == getSecret(vault, cfg.serverUrl, REALMS.SHARE_PW)
    IN (UploadDone(t) /\ tk.result.url)
         => /\ tk.result.expiry > 0 <=> cfg.shareLinkExpireDays > 0
            /\ tk.result.expiry > 0
                 => /\ tk.result.expiry = cfg.shareLinkExpireDays
                    /\ tk.result.expiry = tk.body.expire_days
            /\ tk.result.expiry = 0 => tk.body.expire_days = -1
            /\ tk.result.pwFlag <=> secret # ""
            /\ tk.body.password = secret

C21_Witness ==
  \E t \in TaskIds :
    /\ UploadDone(t)
    /\ tasks[t].result.url
    /\ tasks[t].result.expiry = 365
    /\ ~tasks[t].result.pwFlag
    /\ tasks[t].body = Body(<<"/", "T", "/", "a">>, "", 365)

\* ------------------------------------------------ claims on stored secrets
SecretValues == {GoodPw, BadPw, SharePw} \cup Tokens

\* C22: a stored config has the seven fields of storageConfig and none of
\* its strings is a password, a token or a share password; every login of
\* the vault is in one of the three realms.
C22_CredentialSeparation ==
  /\ \A a \in Accounts :
       /\ DOMAIN config[a] = {"serverUrl", "username", "repoId", "repoName", "uploadDir",
                              "shareLinkExpireDays", "hasShareLinkPassword"}
       /\ config[a].username \notin SecretValues
       /\ config[a].repoId \notin SecretValues
       /\ config[a].repoName \notin SecretValues
       /\ config[a].serverUrl.host \notin SecretValues
       /\ config[a].serverUrl.path \notin SecretValues
       /\ config[a].hasShareLinkPassword \in BOOLEAN
  /\ \A i \in 1..Len(vault) :
       vault[i].realm \in {REALMS.PASSWORD, REALMS.TOKEN, REALMS.SHARE_PW}

C22_Witness ==
  \E a \in Accounts :
    /\ config[a].hasShareLinkPassword
    /\ getSecret(vault, config[a].serverUrl, REALMS.PASSWORD) = GoodPw
    /\ getSecret(vault, config[a].serverUrl, REALMS.TOKEN) \in Tokens
    /\ getSecret(vault, config[a].serverUrl, REALMS.SHARE_PW) = SharePw

\* ------------------------------------------- claims on cleanup and sharing
\* C23: when removeAllForHost threw inside the account-deleted handler, the
\* handler still finishes without an error, and the account's config entry
\* and cached instance are gone.
C23_CleanupBestEffort ==
  \A t \in TaskIds :
    LET tk == tasks[t] IN
    (tk.kind = "acctDeleted" /\ Count(tk.trace, "vault.remove.throw") > 0)
      => /\ tk.result.kind # "error"
         /\ tk.pc = "done"
              => /\ tk.result = Result("ok", "")
                 /\ Last(tk.trace) = "storage.remove"
                 /\ config[tk.acct] = NoConfig
                 /\ apiCache[tk.acct] = NoApi

C23_Witness ==
  \E t \in TaskIds :
    /\ tasks[t].kind = "acctDeleted" /\ tasks[t].pc = "done"
    /\ tasks[t].trace = <<"storage.get", "vault.remove.throw", "storage.remove">>
    /\ tasks[t].warn = "VAULT"
    /\ ~NoSecretsFor(validateHostname(tasks[t].cfg.serverUrl).origin)
    /\ config[tasks[t].acct] = NoConfig

\* C24: handlers of one account leave the other account alone: while an
\* account has a stored config and no account-deleted handler of its own in
\* flight, the password it saved is in the vault under its origin, and its
\* getAuthenticatedAPI calls never fail for want of credentials.
C24_NoConflict ==
  /\ \A b \in Accounts :
       (/\ config[b] # NoConfig
        /\ \A t \in TaskIds : ~(tasks[t].kind = "acctDeleted" /\ tasks[t].acct = b))
         => getSecret(vault, config[b].serverUrl, REALMS.PASSWORD) = GoodPw
  /\ \A t \in TaskIds :
       (SessionDone(t) /\ tasks[t].cfg # NoConfig)
         => tasks[t].result.code # "NO_CREDENTIALS"

\* ---------------------------------------------- claims on token expiry
\* the vault holds, for the account's origin, the username of its config with
\* a password the server accepts
CredentialsSaved(cfg) ==
  /\ cfg # NoConfig
  /\ \E i \in 1..Len(vault) :
       vault[i] = Login(validateHostname(cfg.serverUrl).origin, REALMS.PASSWORD,
                        cfg.username, GoodPw)

\* a getAuthenticatedAPI call starts for such an account
Recoverable(t) ==
  /\ tasks[t].kind = "session" /\ tasks[t].pc = "gs_cfg"
  /\ CredentialsSaved(config[tasks[t].acct])

\* the call has returned an instance whose token the server accepts
Recovered(t) ==
  /\ SessionDone(t)
  /\ tasks[t].result = Result("ok", "")
  /\ pingOk(tasks[t].api)

\* C25: a getAuthenticatedAPI call for an account with a config and a
\* password login the server accepts eventually returns, and what it returns
\* is an instance with a live token, also when the cached instance and the
\* stored token were both rejected.
C25_EventualRecovery ==
  /\ \A t \in TaskIds : Recoverable(t) ~> SessionDone(t)
  /\ [](\A t \in TaskIds :
          (SessionDone(t) /\ CredentialsSaved(tasks[t].cfg)) => Recovered(t))

\* --------------------------------------- claims on the upload's sequencing
\* the remote DELETE requests a handler sent
DeleteRequests(tr) ==
  Count(tr, "delete.ok") + Count(tr, "delete.fail") + Count(tr, "delete.throw")

\* C26: a finished upload handler whose upload request succeeded has either
\* registered the file in uploadedFiles or sent a remote DELETE for it; in
\* particular one that ends with an error after the bytes were uploaded has
\* sent the DELETE.
C26_CompensatingDelete ==
  \A t \in TaskIds :
    LET tk == tasks[t] IN
    (UploadDone(t) /\ Count(tk.trace, "upload.ok") > 0)
      => \/ /\ tk.result.kind = "ok"
            /\ uploadedFiles[tk.fileId] # NoRecord
         \/ DeleteRequests(tk.trace) > 0

\* the place of a request in the upload's sequence; -1 for a storage or
\* vault access
Rank(x) ==
  IF x \in {"ping.ok", "ping.fail", "ping.throw", "auth.ok", "auth.fail"} THEN 0
  ELSE IF x \in {"mkdir.ok", "mkdir.fail"} THEN 1
  ELSE IF x \in {"ticket.ok", "ticket.fail"} THEN 2
  ELSE IF x \in {"upload.ok", "upload.fail"} THEN 3
  ELSE IF x \in {"share.ok", "share.fail"} THEN 4
  ELSE -1

MkdirRequests(tr) == Count(tr, "mkdir.ok") + Count(tr, "mkdir.fail")

\* C27: an upload handler sends its requests in the order session, mkdir,
\* upload link, upload, share link, each of the last four at most once and
\* only after the one before it succeeded; uploadedFiles gets the file's
\* entry only after the share link was made, with the config's repoId and
\* the sanitized path of the share-link request.
C27_StepOrder ==
  \A t \in TaskIds :
    LET tk == tasks[t]
        tr == tk.trace
    IN tk.kind = "upload"
         => /\ \A i \in 1..Len(tr) : \A j \in 1..Len(tr) :
                 (i < j /\ Rank(tr[i]) >= 0 /\ Rank(tr[j]) >= 0)
                   => /\ Rank(tr[i]) <= Rank(tr[j])
                      /\ Rank(tr[j]) > 0 => Rank(tr[i]) < Rank(tr[j])
            /\ MkdirRequests(tr) > 0 => tk.api # NoApi
            /\ TicketRequests(tr) > 0 => Count(tr, "mkdir.ok") = 1
            /\ UploadRequests(tr) > 0 => Count(tr, "ticket.ok") = 1
            /\ ShareRequests(tr) > 0 => Count(tr, "upload.ok") = 1
            /\ uploadedFiles[tk.fileId] # NoRecord
                 => /\ Last(tr) = "share.ok"
                    /\ uploadedFiles[tk.fileId] = Record(tk.cfg.repoId, tk.body.path, tk.acct)
                    /\ tk.body.path = sanitizePath(tk.cfg.uploadDir \o <<"/">> \o tk.name)
                    /\ tk.cfg.repoId = config[tk.acct].repoId

C27_Witness ==
  \E t \in TaskIds :
    /\ UploadDone(t)
    /\ AllStepsSucceeded(tasks[t])
    /\ uploadedFiles[tasks[t].fileId] = Record("lib1", <<"/", "T", "/", "a">>, tasks[t].acct)

\* --------------------------------------------------- claims on saveConfig
SaveDone(t) ==
  tasks[t].kind = "save" /\ tasks[t].pc = "done" /\ tasks[t].result = Result("ok", "")

\* p is a path as sanitizePath returns them
Sanitized(p) ==
  /\ Len(p) >= 1
  /\ p[1] = "/"
  /\ \A i \in 1..(Len(p) - 1) :
       /\ ~(p[i] = "." /\ p[i + 1] = ".")
       /\ ~(p[i] = "/" /\ p[i + 1] = "/")
  /\ sanitizePath(p) = p

\* C28: when a saveConfig handler has returned success, the share-password
\* realm of the saved origin holds a login iff the form's shareLinkPassword
\* was not empty, the stored hasShareLinkPassword says the same, the stored
\* shareLinkExpireDays is in 0..365 and the stored uploadDir is sanitized.
C28_SavedConfig ==
  \A t \in TaskIds :
    LET tk == tasks[t]
        cfg == config[tk.acct]
        held == findLoginsForRealm(vault, cfg.serverUrl, REALMS.SHARE_PW) # <<>>
    IN SaveDone(t)
         => /\ cfg # NoConfig
            /\ cfg.serverUrl = validateServerUrl(tk.inp.serverUrl).origin
            /\ held <=> tk.inp.shareLinkPassword # ""
            /\ cfg.hasShareLinkPassword <=> held
            /\ cfg.shareLinkExpireDays \in 0..365
            /\ Sanitized(cfg.uploadDir)

C28_Witness ==
  \E t \in TaskIds :
    /\ SaveDone(t)
    /\ tasks[t].inp.shareLinkPassword = ""
    /\ tasks[t].inp.shareLinkExpireDays = 400
    /\ tasks[t].inp.uploadDir = <<".", ".", "/", "/", "d">>
    /\ Count(tasks[t].trace, "vault.remove") = 1
    /\ \E i \in 1..Len(vault) : vault[i].password = GoodPw /\ vault[i].username # tasks[t].inp.username
    /\ config[tasks[t].acct] = Config(validateServerUrl(Url1).origin, tasks[t].inp.username,
                                      <<"/", "d">>, 365, FALSE)

\* the call returned the instance it found in apiCache
FromCache(t) ==
  SessionDone(t) /\ tasks[t].trace = <<"storage.get", "ping.ok">>

\* C29: the step of saveConfig that stores the config leaves no cached
\* instance for the account, and a getAuthenticatedAPI call never returns
\* from the cache an instance made for another origin than the one stored
\* in the config it loaded.
C29_SaveEvictsCache ==
  /\ [][\A t \in TaskIds :
          (tasks[t].pc = "sv_store" /\ tasks'[t].pc = "sv_upd")
            => apiCache'[tasks[t].acct] = NoApi]_vars
  /\ [](\A t \in TaskIds :
          FromCache(t) => tasks[t].api.serverUrl = tasks[t].cfg.serverUrl)

\* C30: the vault never holds two logins of one origin in one realm.
C30_VaultUnique ==
  \A o \in Origins : \A i \in 1..Len(ALLOWED_REALMS) :
    Len(findLoginsForRealm(vault, o, ALLOWED_REALMS[i])) <= 1

\* ------------------------------------------- claims on what a save leaves
\* C31: a loadConfig that follows a successful saveConfig with a password
\* returns the stored config with the password and the share password of
\* that save, and a re-authentication that follows it uses the username and
\* the password of that save.
C31_RoundTrip ==
  \A s \in TaskIds : \A t \in TaskIds :
    LET sv == tasks[s]
        tk == tasks[t]
    IN (SaveDone(s) /\ sv.inp.password # "" /\ tk.acct = sv.acct /\ s < t)
         => /\ (tk.kind = "load" /\ tk.pc = "done")
                 => /\ tk.result = Result("ok", "")
                    /\ tk.cfg = storageConfig(validateServerUrl(sv.inp.serverUrl).origin, sv.inp)
                    /\ tk.creds.password = sv.inp.password
                    /\ tk.sharePw = sv.inp.shareLinkPassword
            /\ (tk.kind = "session" /\ tk.creds # NoLogin)
                 => /\ tk.creds.username = sv.inp.username
                    /\ tk.creds.password = sv.inp.password

\* ------------------------------------- claims on handlers that overlap
\* C32: an instance cached for an account was made for the origin of the
\* account's stored config.
C32_CacheMatchesConfig ==
  \A a \in Accounts :
    apiCache[a] # NoApi => apiCache[a].serverUrl = config[a].serverUrl

\* no handler is between two of its awaited calls
AllFinished == \A t \in TaskIds : tasks[t].pc \in {"idle", "done"}

\* C33: once every handler has finished, an account that was deleted and
\* not saved again has no cached instance, and the token realm of its
\* origin holds no login.
C33_NoResurrection ==
  \A a \in deleted :
    AllFinished
      => /\ apiCache[a] = NoApi
         /\ findLoginsForRealm(vault, validateServerUrl(ServerOf(a)).origin, REALMS.TOKEN) = <<>>

\* ------------------------------------------- claims on what handlers leave
\* C34: a step of the account-deleted handler of one account changes, for
\* every other account, neither its stored config nor its cached instance
\* nor the logins of its origin in any realm, and it changes no upload
\* record.
C34_DeletionFrame ==
  [][\A t \in TaskIds :
       (tasks[t].kind = "acctDeleted" /\ tasks'[t] # tasks[t])
         => /\ uploadedFiles' = uploadedFiles
            /\ \A b \in Accounts \ {tasks[t].acct} :
                 /\ config'[b] = config[b]
                 /\ apiCache'[b] = apiCache[b]
                 /\ config[b] # NoConfig
                      => \A i \in 1..Len(ALLOWED_REALMS) :
                           findLoginsForRealm(vault', config[b].serverUrl, ALLOWED_REALMS[i])
                             = findLoginsForRealm(vault, config[b].serverUrl, ALLOWED_REALMS[i])]_vars

\* C35: when a saveConfig handler has returned a failure, the vault, the
\* stored configs and the cached instances are what they were when the
\* request arrived.
C35_SaveAtomic ==
  \A t \in TaskIds :
    LET tk == tasks[t] IN
    (tk.kind = "save" /\ tk.pc = "done" /\ tk.result.kind = "error")
      => <<vault, config, apiCache>> = tk.before

====
